---- MODULE Spec2Model ----
(***************************************************************************)
(* A model of the torchinductor code generator of this repository:         *)
(*   torchinductor/codegen/triton.py  split_sizes, TritonKernel,           *)
(*                                    schedule_kernels                     *)
(*   torchinductor/shapes.py          SizeVarAllocator                     *)
(* Each component has a specification of its own (SpecSplit, SpecAlloc,    *)
(* ...); the variables of the other components stay at their idle value.   *)
(***************************************************************************)
EXTENDS Integers, Sequences, FiniteSets, TLC

VARIABLES
    \* split_sizes: the call's arguments and what it returned
    split_args, split_ret,
    \* SizeVarAllocator: its fields, the graph inputs, the last call
    zero_one_const, val_to_var, var_to_val, lookup_val, lookup_ret,
    first_ret, graph_inputs, codegen_ret,
    \* TritonKernel: the kernel object, the last indexing call and its result
    kernel, index_arg, index_ret,
    \* the calls made on the kernel, the outcome of the last one, the rendered
    \* kernel source and the NEED_MASK the source is compiled with
    ncalls, call_ret, rendered, NEED_MASK,
    \* schedule_kernels: the nodes of the graph; the Scheduler's pool, the
    \* nodes marked fusable, its kernels, the stack of current kernels and the
    \* barriers; the driver's reschedule list, the nodes popped for the loop it
    \* is in, the progress of the fixed-point round, the (group,
    \* reduction_group) of the loop and the place in the code
    nodes, pool, marked, kernels, kernel_stack, barriers,
    reschedule, popped, progress, cur, pc,
    \* a row of a launched reduction kernel: the values its lanes loaded,
    \* whether the row is below numel, the kind reduced and the reduced value
    row, row_ok, reduce_kind, reduced,
    \* the call site call_kernel wrote into the wrapper
    call_site,
    \* set_ranges: the size lists of the last call, what it returned, and
    \* what the first call with each pair of size lists returned
    ranges_arg, ranges_ret, ranges_log,
    \* ExpandView: the view (its size and the size of its data), the loader
    \* make_loader returned, the index the loader is called with, the outcome
    expand_view, expand_loader, expand_index, expand_ret,
    \* a box: its wrapper classes, the class of the node it wraps, the name
    \* looked up on it, the outcome
    box_chain, box_data, attr_arg, attr_ret,
    \* the index-derivation prologue rendered for the kernel, and the lanes
    \* of a launch that have run it
    prologue, launch,
    \* GradModeVariable: the grad mode of torch, the output graph of the frame,
    \* the variables of the frame, the with-blocks entered, the last call
    grad_enabled, fx_graph, grad_vars, with_stack, grad_ret

splitVars == <<split_args, split_ret>>
allocVars == <<zero_one_const, val_to_var, var_to_val, lookup_val, lookup_ret,
               first_ret, graph_inputs, codegen_ret>>
kernelVars == <<kernel, index_arg, index_ret, ncalls, call_ret, rendered, NEED_MASK>>
schedVars == <<nodes, pool, marked, kernels, kernel_stack, barriers,
               reschedule, popped, progress, cur, pc>>
reduceVars == <<row, row_ok, reduce_kind, reduced>>
rangesVars == <<ranges_arg, ranges_ret, ranges_log>>
expandVars == <<expand_view, expand_loader, expand_index, expand_ret>>
boxVars == <<box_chain, box_data, attr_arg, attr_ret>>
walkVars == <<prologue, launch>>
gradVars == <<grad_enabled, fx_graph, grad_vars, with_stack, grad_ret>>
extraVars == <<reduceVars, call_site, rangesVars, expandVars, boxVars, walkVars, gradVars>>
vars == <<splitVars, allocVars, kernelVars, schedVars, extraVars>>

(***************************************************************************)
(* Bounds of the model.                                                    *)
(***************************************************************************)
\* split_sizes: the longest size list and the largest size tried
MaxLen == 3
MaxSize == 4
\* SizeVarAllocator: the values looked up are 0..MaxVal
MaxVal == 3
\* SizeVarAllocator.codegen: the dimensions all graph inputs have together
MaxDims == 2
\* TritonKernel: the iteration and reduction variables a kernel registers,
\* and the largest coefficient of an index expression
MaxVars == 2
MaxCoef == 1
\* TritonKernel: the load, store and reduction calls made on one kernel
MaxCalls == 3
\* the lanes of a row of a reduction kernel
REDUCTION_SIZE == 3
\* set_ranges: the longest list of iteration sizes and the calls on a kernel
MaxRank == 2
MaxRangeCalls == 2
\* ExpandView: the dimensions of the expanded size
MaxExpandRank == 2
\* schedule_kernels: the nodes of the graph
MaxNodes == 3
\* the nodes of a pool whose every run is followed to its end
MaxFairNodes == 2
\* the prologue: the dimensions of the iteration sizes of the node
MaxWalkRank == 2
\* the frame: the grad-mode variables it builds, the depth of its with-blocks,
\* the nodes of its graph
MaxGradVars == 2
MaxWithDepth == 2
MaxGraphNodes == 4

(***************************************************************************)
(* Python values.                                                          *)
(***************************************************************************)
\* Python's None and a returned integer, as one shape of record
None == [kind |-> "None", val |-> 0]
Some(i) == [kind |-> "int", val |-> i]
\* the call has not returned yet
Pending == [kind |-> "pending", val |-> 0]

\* common.product: the product of a list, 1 for the empty list
RECURSIVE product(_)
product(s) == IF s = <<>> THEN 1 ELSE Head(s) * product(Tail(s))

\* the Python slices s[:i] and s[i:] (i counted from 0)
SliceTo(s, i) == SubSeq(s, 1, i)
SliceFrom(s, i) == SubSeq(s, i + 1, Len(s))

(***************************************************************************)
(* split_sizes (triton.py 327-331).                                        *)
(***************************************************************************)
\* the loop "for i in range(len(sizes))" from index i on
RECURSIVE split_sizes_loop(_, _, _, _)
split_sizes_loop(sizes, prod1, prod2, i) ==
    IF i >= Len(sizes) THEN None
    ELSE IF product(SliceTo(sizes, i)) = prod1 /\ product(SliceFrom(sizes, i)) = prod2
         THEN Some(i)
         ELSE split_sizes_loop(sizes, prod1, prod2, i + 1)

\* a slip in the slices: the prefix taken as sizes[:i+1], one element too long
RECURSIVE split_sizes_loop_inclusive(_, _, _, _)
split_sizes_loop_inclusive(sizes, prod1, prod2, i) ==
    IF i >= Len(sizes) THEN None
    ELSE IF product(SliceTo(sizes, i + 1)) = prod1
            /\ product(SliceFrom(sizes, i + 1)) = prod2
         THEN Some(i)
         ELSE split_sizes_loop_inclusive(sizes, prod1, prod2, i + 1)

split_sizes_inclusive(sizes, prod1, prod2) ==
    split_sizes_loop_inclusive(sizes, prod1, prod2, 0)

\* a slip: a split is always found, before the first size
split_sizes_always(sizes, prod1, prod2) == Some(0)

split_sizes(sizes, prod1, prod2) == split_sizes_loop(sizes, prod1, prod2, 0)

\* the size lists and products the calls are drawn from
SizeLists == UNION {[1..n -> 1..MaxSize] : n \in 0..MaxLen}
MaxProd == 24
Products == 1..MaxProd

SplitIdle ==
    /\ split_args = [sizes |-> <<>>, prod1 |-> 1, prod2 |-> 1]
    /\ split_ret = Pending

SplitInit ==
    /\ split_args \in [sizes : SizeLists, prod1 : Products, prod2 : Products]
    /\ split_ret = Pending

\* the call split_sizes(sizes, prod1, prod2)
SplitCall ==
    /\ split_ret = Pending
    /\ split_ret' = split_sizes(split_args.sizes, split_args.prod1, split_args.prod2)
    /\ UNCHANGED split_args

(***************************************************************************)
(* sympy expressions, as far as shapes.py builds and prints them.          *)
(***************************************************************************)
\* sympy.Integer(n)
Integer(n) == [kind |-> "Integer", name |-> "", n |-> n, m |-> 0]
\* sympy.Symbol(f"{name}{n}")
Symbol(name, n) == [kind |-> "Symbol", name |-> name, n |-> n, m |-> 0]
\* the product a * b of two symbols of one prefix (a stride of a 3-d input)
Mul(a, b) == [kind |-> "Mul", name |-> a.name, n |-> a.n, m |-> b.n]
NoExpr == [kind |-> "none", name |-> "", n |-> 0, m |-> 0]

\* str(expr): "7" for Integer(7), "s7" for Symbol("s7"), "s0*s1" for a product;
\* a text is modelled by its letters and its numbers
Str(e) ==
    IF e.kind = "Integer" THEN <<"", e.n, -1>>
    ELSE IF e.kind = "Symbol" THEN <<e.name, e.n, -1>>
    ELSE <<e.name, e.n, e.m>>

(***************************************************************************)
(* SizeVarAllocator (shapes.py 9-43).                                      *)
(***************************************************************************)
\* the prefix argument of __init__, at its default
prefix == "s"

\* a dict is a function on its keys; an OrderedDict the sequence of its
\* <<key, value>> items in insertion order
EmptyDict == [k \in {} |-> NoExpr]
OrderedKeys(od) == {od[i][1] : i \in 1..Len(od)}
OrderedSet(od, k, v) ==
    IF k \in OrderedKeys(od)
    THEN [i \in 1..Len(od) |-> IF od[i][1] = k THEN <<k, v>> ELSE od[i]]
    ELSE Append(od, <<k, v>>)

\* __init__(prefix, zero_one_const): val_to_var, var_to_val
SizeVarAllocator_init(zoc) ==
    [val_to_var |-> IF zoc THEN (0 :> Integer(0)) @@ (1 :> Integer(1)) ELSE EmptyDict,
     var_to_val |-> <<>>]

\* a slip: the forward mapping of a minted variable is not recorded
getitem_forgets(v2v, var2val, val) ==
    IF val \in DOMAIN v2v
    THEN [val_to_var |-> v2v, var_to_val |-> var2val, ret |-> v2v[val]]
    ELSE LET var == Symbol(prefix, Len(var2val))
         IN [val_to_var |-> v2v,
             var_to_val |-> OrderedSet(var2val, var, val),
             ret |-> var]

\* a slip: the variable is numbered by the size of the forward mapping
getitem_counts_values(v2v, var2val, val) ==
    IF val \in DOMAIN v2v
    THEN [val_to_var |-> v2v, var_to_val |-> var2val, ret |-> v2v[val]]
    ELSE LET var == Symbol(prefix, Cardinality(DOMAIN v2v))
         IN [val_to_var |-> (val :> var) @@ v2v,
             var_to_val |-> OrderedSet(var2val, var, val),
             ret |-> var]

\* __getitem__(val): the fields after the call and what it returns
getitem(v2v, var2val, val) ==
    IF val \in DOMAIN v2v
    THEN [val_to_var |-> v2v, var_to_val |-> var2val, ret |-> v2v[val]]
    ELSE LET var == Symbol(prefix, Len(var2val))
         IN [val_to_var |-> (val :> var) @@ v2v,
             var_to_val |-> OrderedSet(var2val, var, val),
             ret |-> var]

\* the (input, dim, shape) triples "for name, value in graph_inputs.items():
\* for dim, shape in enumerate(shapes)" visits, from input k on; what is
\* "size" (value.get_size()) or "stride" (value.get_stride())
ShapesOf(inp, what) == IF what = "size" THEN inp.size ELSE inp.stride

RECURSIVE scan_order(_, _, _)
scan_order(inputs, what, k) ==
    IF k > Len(inputs) THEN <<>>
    ELSE [d \in 1..Len(ShapesOf(inputs[k], what)) |->
             [name |-> inputs[k].name, dim |-> d - 1, what |-> what,
              shape |-> ShapesOf(inputs[k], what)[d]]]
         \o scan_order(inputs, what, k + 1)

\* one of the two loops of codegen over the triples es: st is the set needed
\* and the lines written to code so far
RECURSIVE scan(_, _)
scan(es, st) ==
    IF es = <<>> THEN st
    ELSE LET e == Head(es)
             shape == Str(e.shape)
         IN IF shape \in st.needed
            THEN scan(Tail(es),
                      [needed |-> st.needed \ {shape},
                       code |-> Append(st.code,
                                  [var |-> shape, name |-> e.name,
                                   what |-> e.what, dim |-> e.dim])])
            ELSE scan(Tail(es), st)

\* a slip: the strides are never scanned
codegen_sizes_only(var2val, inputs) ==
    LET needed == {Str(k) : k \in OrderedKeys(var2val)}
        s1 == scan(scan_order(inputs, "size", 1), [needed |-> needed, code |-> <<>>])
    IN [kind |-> IF s1.needed = {} THEN "returned" ELSE "AssertionError",
        code |-> s1.code]

\* a slip: the strides are scanned before the sizes
codegen_strides_first(var2val, inputs) ==
    LET needed == {Str(k) : k \in OrderedKeys(var2val)}
        s1 == scan(scan_order(inputs, "stride", 1), [needed |-> needed, code |-> <<>>])
        s2 == scan(scan_order(inputs, "size", 1), s1)
    IN [kind |-> IF s2.needed = {} THEN "returned" ELSE "AssertionError",
        code |-> s2.code]

\* codegen(code, graph_inputs): the lines written to code, and whether it
\* returned or "assert not needed" failed
codegen(var2val, inputs) ==
    LET needed == {Str(k) : k \in OrderedKeys(var2val)}
        s1 == scan(scan_order(inputs, "size", 1), [needed |-> needed, code |-> <<>>])
        s2 == scan(scan_order(inputs, "stride", 1), s1)
    IN [kind |-> IF s2.needed = {} THEN "returned" ELSE "AssertionError",
        code |-> s2.code]

Values == 0..MaxVal

NotCalled == [kind |-> "pending", code |-> <<>>]

AllocIdle ==
    /\ zero_one_const = TRUE
    /\ val_to_var = SizeVarAllocator_init(TRUE).val_to_var
    /\ var_to_val = <<>>
    /\ lookup_val = -1
    /\ lookup_ret = NoExpr
    /\ first_ret = EmptyDict
    /\ graph_inputs = <<>>
    /\ codegen_ret = NotCalled

\* SizeVarAllocator(zero_one_const=...), nothing looked up yet
AllocInit ==
    /\ zero_one_const \in BOOLEAN
    /\ val_to_var = SizeVarAllocator_init(zero_one_const).val_to_var
    /\ var_to_val = SizeVarAllocator_init(zero_one_const).var_to_val
    /\ lookup_val = -1
    /\ lookup_ret = NoExpr
    /\ first_ret = EmptyDict
    /\ graph_inputs = <<>>
    /\ codegen_ret = NotCalled

\* sizevars[val]; first_ret keeps what the first lookup of each value returned
Lookup(val) ==
    /\ codegen_ret = NotCalled
    /\ LET r == getitem(val_to_var, var_to_val, val)
       IN /\ val_to_var' = r.val_to_var
          /\ var_to_val' = r.var_to_val
          /\ lookup_ret' = r.ret
          /\ first_ret' = IF val \in DOMAIN first_ret THEN first_ret
                          ELSE (val :> r.ret) @@ first_ret
    /\ lookup_val' = val
    /\ UNCHANGED <<zero_one_const, graph_inputs, codegen_ret>>

\* the sizes and strides a declared input may have: the constant 1, a minted
\* variable, the product of the first two minted variables
Minted == OrderedKeys(var_to_val)
ShapeExprs ==
    {Integer(1)} \cup Minted
    \cup (IF Len(var_to_val) >= 2 THEN {Mul(var_to_val[1][1], var_to_val[2][1])} ELSE {})

RECURSIVE TotalDims(_)
TotalDims(inputs) ==
    IF inputs = <<>> THEN 0 ELSE Len(Head(inputs).size) + TotalDims(Tail(inputs))

\* the graph declares one more input, named by its position
AddInput(size, stride) ==
    /\ codegen_ret = NotCalled
    /\ Len(size) = Len(stride)
    /\ TotalDims(graph_inputs) + Len(size) <= MaxDims
    /\ graph_inputs' = Append(graph_inputs,
                              [name |-> Len(graph_inputs), size |-> size, stride |-> stride])
    /\ UNCHANGED <<zero_one_const, val_to_var, var_to_val, lookup_val, lookup_ret,
                   first_ret, codegen_ret>>

\* sizevars.codegen(code, graph_inputs)
Codegen ==
    /\ codegen_ret = NotCalled
    /\ codegen_ret' = codegen(var_to_val, graph_inputs)
    /\ UNCHANGED <<zero_one_const, val_to_var, var_to_val, lookup_val, lookup_ret,
                   first_ret, graph_inputs>>

\* the allocator of a graph is built with the defaults
CodegenInit == AllocIdle

\* the values a graph looks up, each novel one in turn (the scan of codegen
\* reads the variables, never their values)
NovelValue == Len(var_to_val) + 2

LookupNovel == NovelValue \in Values /\ Lookup(NovelValue)
DeclareInput ==
    \E n \in 1..(MaxDims - TotalDims(graph_inputs)) :
       \E size, stride \in [1..n -> ShapeExprs] : AddInput(size, stride)

(***************************************************************************)
(* Index expressions: sympy polynomials in the kernel's variables.  An     *)
(* expression is the function from its monomials (sets of symbols) to      *)
(* their nonzero integer coefficients; the constant term is the monomial   *)
(* {}, and 0 is the empty function, as sympy keeps no zero term.           *)
(***************************************************************************)
ZeroPoly == [mono \in {} |-> 0]
Coef(p, mono) == IF mono \in DOMAIN p THEN p[mono] ELSE 0
\* p - q
PolySub(p, q) ==
    [mono \in {x \in DOMAIN p \cup DOMAIN q : Coef(p, x) - Coef(q, x) # 0} |->
        Coef(p, mono) - Coef(q, mono)]
\* p.subs({v: 0 for v in zeroed})
Subs0(p, zeroed) == [mono \in {x \in DOMAIN p : x \cap zeroed = {}} |-> p[mono]]
SeqRange(q) == {q[i] : i \in 1..Len(q)}
\* texpr(expr), the printed expression
texpr(p) == [text |-> "texpr", expr |-> p, shape |-> ""]
Zeros(size) == [text |-> "tl.zeros", expr |-> ZeroPoly, shape |-> size]
Reshape(part, shape) == [text |-> "tl.reshape", expr |-> part, shape |-> shape]

(***************************************************************************)
(* TritonKernel (triton.py 46-143).                                        *)
(***************************************************************************)
EmptyTree == [path \in {} |-> NoExpr]

\* __init__(numel, reduction_numel); the code buffers, the cse cache and the
\* arguments are those of the base class Kernel
TritonKernel_init(numel, reduction_numel) ==
    [numel |-> numel,
     reduction_numel |-> reduction_numel,
     iter_range_tree |-> EmptyTree,
     reduction_range_tree |-> EmptyTree,
     iter_vars |-> <<>>,
     reduction_vars |-> <<>>,
     iter_vars_count |-> 0,
     inside_reduction |-> reduction_numel # 1,
     loads |-> <<>>, compute |-> <<>>, stores |-> <<>>,
     cse |-> <<>>,
     input_buffers |-> <<>>, output_buffers |-> <<>>, sizevars |-> <<>>]

\* a slip: a variable is minted for every size, registered or not
RECURSIVE add_ranges_loop_always_mints(_, _, _, _)
add_ranges_loop_always_mints(lengths, pre, d, st) ==
    IF d > Len(lengths) THEN st
    ELSE LET path == SubSeq(lengths, 1, d)
             sym == Symbol(pre, st.count)
         IN add_ranges_loop_always_mints(lengths, pre, d + 1,
                [tree |-> (path :> sym) @@ st.tree,
                 var_list |-> Append(st.var_list, sym),
                 count |-> st.count + 1,
                 itervars |-> Append(st.itervars, sym)])

\* _add_ranges, the loop "for sv in lengths" from position d on.  A range
\* tree (nested dicts {size: (symbol, subtree)}) is the function from the
\* paths of sizes to the symbols; st holds tree, var_list, the counter and
\* the itervars collected so far.
RECURSIVE add_ranges_loop(_, _, _, _)
add_ranges_loop(lengths, pre, d, st) ==
    IF d > Len(lengths) THEN st
    ELSE LET path == SubSeq(lengths, 1, d)
         IN IF path \notin DOMAIN st.tree
            THEN LET sym == Symbol(pre, st.count)
                 IN add_ranges_loop(lengths, pre, d + 1,
                        [tree |-> (path :> sym) @@ st.tree,
                         var_list |-> Append(st.var_list, sym),
                         count |-> st.count + 1,
                         itervars |-> Append(st.itervars, sym)])
            ELSE add_ranges_loop(lengths, pre, d + 1,
                        [st EXCEPT !.itervars = Append(@, st.tree[path])])

\* _add_ranges(lengths, var_list, tree, prefix)
add_ranges(lengths, var_list, tree, pre, count) ==
    add_ranges_loop(lengths, pre, 1,
        [tree |-> tree, var_list |-> var_list, count |-> count, itervars |-> <<>>])

\* set_ranges(lengths, reduction_lengths): the kernel after the call and the
\* pair of variable lists it returns
set_ranges(k, lengths, reduction_lengths) ==
    LET it == add_ranges(lengths, k.iter_vars, k.iter_range_tree, "i", k.iter_vars_count)
        rd == add_ranges(reduction_lengths, k.reduction_vars, k.reduction_range_tree,
                         "r", it.count)
    IN [kernel |-> [k EXCEPT !.iter_range_tree = it.tree,
                             !.iter_vars = it.var_list,
                             !.reduction_range_tree = rd.tree,
                             !.reduction_vars = rd.var_list,
                             !.iter_vars_count = rd.count],
        ret |-> <<it.itervars, rd.itervars>>]

\* the three parts indexing computes (lines 89-91)
index_offset(k, index) == Subs0(index, SeqRange(k.iter_vars) \cup SeqRange(k.reduction_vars))
\* a slip: the offset is not taken off the base part
base_part_with_offset(k, index) == Subs0(index, SeqRange(k.reduction_vars))
base_part(k, index) == PolySub(Subs0(index, SeqRange(k.reduction_vars)), index_offset(k, index))

reduction_part(k, index) ==
    PolySub(Subs0(index, SeqRange(k.iter_vars)), index_offset(k, index))

\* indexing(index): the address parts joined by " + ", or the failed assert
indexing(k, index) ==
    LET offset == index_offset(k, index)
        base == base_part(k, index)
        red == reduction_part(k, index)
        addr0 == IF offset # ZeroPoly THEN <<texpr(offset)>> ELSE <<>>
        basetxt == IF base # ZeroPoly THEN texpr(base) ELSE Zeros("(BLOCK_SIZE, )")
        redtxt == IF red # ZeroPoly THEN texpr(red) ELSE Zeros("(REDUCTION_SIZE, )")
    IN IF k.inside_reduction
       THEN [kind |-> "returned",
             addr |-> addr0 \o <<Reshape(basetxt, "(BLOCK_SIZE, 1)"),
                                 Reshape(redtxt, "(1, REDUCTION_SIZE)")>>]
       ELSE IF red = ZeroPoly
            THEN [kind |-> "returned", addr |-> Append(addr0, basetxt)]
            ELSE [kind |-> "AssertionError", addr |-> <<>>]

IndexNotCalled == [kind |-> "pending", addr |-> <<>>]
NumVars(k) == Len(k.iter_vars) + Len(k.reduction_vars)
KernelVarSet(k) == SeqRange(k.iter_vars) \cup SeqRange(k.reduction_vars)

(***************************************************************************)
(* TritonKernel.mask, load, store, reduction (triton.py 115-143) and the   *)
(* head of codegen_kernel (157-230).  A line of code is a record of its    *)
(* parts; a name in the code is a token: its letters and its number.       *)
(***************************************************************************)
Token(text, n) == [text |-> text, n |-> n]
NoToken == Token("", 0)
Line(op, target, ptr, addr, value, other, maskarg) ==
    [op |-> op, target |-> target, ptr |-> ptr, addr |-> addr, value |-> value,
     other |-> other, mask |-> maskarg]

\* a slip: the plain mask named whatever the mode
mask_always_plain(k, reductions) == "mask=mask"

\* a slip: the reduction mask named whatever the mode
mask_always_reduction(k, reductions) == "mask=mask_reduction"

\* mask(reductions=True)
mask(k, reductions) ==
    IF k.inside_reduction /\ reductions THEN "mask=mask_reduction" ELSE "mask=mask"

\* Kernel.args.input(name) / output(name): the kernel's name of a buffer,
\* registered at its first use (in_ptr0, in_ptr1, ...)
Position(q, x) == CHOOSE i \in 1..Len(q) : q[i] = x
args_input(k, name) ==
    IF name \in SeqRange(k.input_buffers)
    THEN [kernel |-> k, var |-> Token("in_ptr", Position(k.input_buffers, name) - 1)]
    ELSE [kernel |-> [k EXCEPT !.input_buffers = Append(@, name)],
          var |-> Token("in_ptr", Len(k.input_buffers))]
args_output(k, name) ==
    IF name \in SeqRange(k.output_buffers)
    THEN [kernel |-> k, var |-> Token("out_ptr", Position(k.output_buffers, name) - 1)]
    ELSE [kernel |-> [k EXCEPT !.output_buffers = Append(@, name)],
          var |-> Token("out_ptr", Len(k.output_buffers))]

\* Kernel.cse.generate(buffer, line): a line seen before gives the variable
\* it was assigned to; a new line is written to the buffer as "tmpN = line"
cse_generate(k, buffer, line) ==
    IF line \in SeqRange(k.cse)
    THEN [kernel |-> k, var |-> Token("tmp", Position(k.cse, line) - 1)]
    ELSE LET var == Token("tmp", Len(k.cse))
             written == [line EXCEPT !.target = var]
         IN [kernel |-> [k EXCEPT !.cse = Append(@, line),
                                  ![buffer] = Append(@, written)],
             var |-> var]

Raised(k, error) == [kernel |-> k, kind |-> error, var |-> NoToken]
Returned(k, var) == [kernel |-> k, kind |-> "returned", var |-> var]

\* load(name, index)
load(k, name, index) ==
    LET a == args_input(k, name)
        ix == indexing(a.kernel, index)
    IN IF ix.kind # "returned" THEN Raised(a.kernel, ix.kind)
       ELSE LET g == cse_generate(a.kernel, "loads",
                        Line("tl.load", NoToken, a.var, ix.addr, NoToken, NoToken,
                             mask(a.kernel, TRUE)))
            IN Returned(g.kernel, g.var)

\* store(name, index, value)
store(k, name, index, value) ==
    LET a == args_output(k, name)
        ix == indexing(a.kernel, index)
    IN IF ix.kind # "returned" THEN Raised(a.kernel, ix.kind)
       ELSE Returned([a.kernel EXCEPT !.stores = Append(@,
                        Line("tl.store", NoToken, a.var, ix.addr, value, NoToken,
                             mask(a.kernel, TRUE)))],
                     NoToken)

\* a slip: every kind is given the default of sum
ReductionDefault_of_sum ==
    ("sum" :> Token("0", 0)) @@ ("max" :> Token("0", 0)) @@ ("min" :> Token("0", 0))

\* the table "default" of reduction
ReductionDefault ==
    ("sum" :> Token("0", 0)) @@ ("max" :> Token("float('-inf')", 0))
    @@ ("min" :> Token("float('inf')", 0))

\* a slip: the kind is looked up after the masked value was generated
reduction_looks_up_late(k, name, reduction_type, index, value) ==
    LET g1 == cse_generate(k, "compute",
                  Line("tl.where(mask_reduction, value, other) if NEED_MASK else value",
                       NoToken, NoToken, <<>>, value, NoToken, ""))
    IN IF reduction_type \notin DOMAIN ReductionDefault
       THEN Raised(g1.kernel, "KeyError")
       ELSE Returned(g1.kernel, NoToken)

\* a slip: reduction mode is not entered again after the nested store
reduction_stays_outside(k, name, reduction_type, index, value) ==
    IF reduction_type \notin DOMAIN ReductionDefault THEN Raised(k, "KeyError")
    ELSE LET g1 == cse_generate(k, "compute",
                       Line("tl.where(mask_reduction, value, other) if NEED_MASK else value",
                            NoToken, NoToken, <<>>, value,
                            ReductionDefault[reduction_type], ""))
             g2 == cse_generate(g1.kernel, "compute",
                       Line("tl." \o reduction_type, NoToken, NoToken, <<>>, g1.var,
                            Token("1", 0), ""))
         IN IF ~g2.kernel.inside_reduction THEN Raised(g2.kernel, "AssertionError")
            ELSE store([g2.kernel EXCEPT !.inside_reduction = FALSE], name, index, g2.var)

\* reduction(name, dtype, reduction_type, index, value); ops.store is the
\* store of the kernel itself, the current kernel
reduction(k, name, reduction_type, index, value) ==
    IF reduction_type \notin DOMAIN ReductionDefault THEN Raised(k, "KeyError")
    ELSE LET g1 == cse_generate(k, "compute",
                       Line("tl.where(mask_reduction, value, other) if NEED_MASK else value",
                            NoToken, NoToken, <<>>, value,
                            ReductionDefault[reduction_type], ""))
             g2 == cse_generate(g1.kernel, "compute",
                       Line("tl." \o reduction_type, NoToken, NoToken, <<>>, g1.var,
                            Token("1", 0), ""))
         IN IF ~g2.kernel.inside_reduction THEN Raised(g2.kernel, "AssertionError")
            ELSE LET st == store([g2.kernel EXCEPT !.inside_reduction = FALSE],
                                 name, index, g2.var)
                 IN IF st.kind # "returned" THEN st
                    ELSE Returned([st.kernel EXCEPT !.inside_reduction = TRUE], NoToken)

\* codegen_kernel: the heuristics, the parameters, the mask variables the
\* prologue binds (to their value if NEED_MASK and otherwise), and the body
codegen_kernel(k) ==
    [heuristics |-> IF k.inside_reduction THEN "reduction_heuristics"
                    ELSE "pointwise_heuristics",
     argdefs |-> [i \in 1..Len(k.input_buffers) |-> Token("in_ptr", i - 1)]
                 \o [i \in 1..Len(k.output_buffers) |-> Token("out_ptr", i - 1)]
                 \o [i \in 1..Len(k.sizevars) |-> Token("ks", i - 1)]
                 \o (IF k.inside_reduction
                     THEN <<Token("numel", 0), Token("reduction_numel", 0),
                            Token("BLOCK_SIZE: tl.constexpr", 0),
                            Token("REDUCTION_SIZE: tl.constexpr", 0),
                            Token("NEED_MASK: tl.constexpr", 0)>>
                     ELSE <<Token("numel", 0), Token("BLOCK_SIZE: tl.constexpr", 0),
                            Token("NEED_MASK: tl.constexpr", 0)>>),
     masks |-> IF k.inside_reduction
               THEN ("mask" :> [need |-> "indices0 < numel", else |-> "None"])
                    @@ ("mask_reduction" :>
                          [need |-> "tl.reshape(mask, (BLOCK_SIZE, 1)) & tl.reshape(reduction0 < reduction_numel, (1, REDUCTION_SIZE))",
                           else |-> "None"])
               ELSE ("mask" :> [need |-> "indices0 < numel", else |-> "None"]),
     body |-> k.loads \o k.compute \o k.stores]

\* the prologue's "if NEED_MASK: ... else: ...": what the compiled kernel
\* binds a mask variable to
mask_binding(r, need_mask, var) ==
    IF need_mask THEN r.masks[var].need ELSE r.masks[var].else

NotRendered == [heuristics |-> "", argdefs |-> <<>>,
                masks |-> [v \in {} |-> [need |-> "", else |-> ""]], body |-> <<>>]
NoCall == [op |-> "", kind |-> "pending", var |-> NoToken]
callVars == <<ncalls, call_ret, rendered, NEED_MASK>>

CallsIdle ==
    /\ ncalls = 0
    /\ call_ret = NoCall
    /\ rendered = NotRendered
    /\ NEED_MASK = FALSE

\* the buffers, reduction kinds and index expressions of the calls: the sum
\* of the iteration variables, of the reduction variables, of all variables
Buffers == {"a", "b"}
ReductionTypes == {"sum", "max", "min", "prod"}
SumOf(varset) == [mono \in {{v} : v \in varset} |-> 1]
CallIndexes(k) ==
    {SumOf(SeqRange(k.iter_vars)), SumOf(SeqRange(k.reduction_vars)), SumOf(KernelVarSet(k))}
\* the value stored or reduced: the last variable cse assigned, or a constant
LastValue(k) == IF k.cse = <<>> THEN Token("0.0", 0) ELSE Token("tmp", Len(k.cse) - 1)

\* TritonKernel(numel, reduction_numel), to be compiled with NEED_MASK
KernelInit ==
    /\ kernel \in {TritonKernel_init(6, rn) : rn \in {1, 2}}
    /\ index_arg = ZeroPoly
    /\ index_ret = IndexNotCalled
    /\ ncalls = 0
    /\ call_ret = NoCall
    /\ rendered = NotRendered
    /\ NEED_MASK \in BOOLEAN

\* a call raised: the compilation ends, nothing more is called on the kernel
CanCall == ncalls < MaxCalls /\ call_ret.kind \in {"pending", "returned"} /\ rendered = NotRendered

\* the ranges of the node that is about to run in the kernel
RegisterRanges(lengths, reduction_lengths) ==
    /\ ncalls = 0 /\ NumVars(kernel) = 0 /\ rendered = NotRendered
    /\ NumVars(set_ranges(kernel, lengths, reduction_lengths).kernel) <= MaxVars
    /\ kernel' = set_ranges(kernel, lengths, reduction_lengths).kernel
    /\ UNCHANGED <<index_arg, index_ret, callVars>>

Called(op, r) ==
    /\ kernel' = r.kernel
    /\ call_ret' = [op |-> op, kind |-> r.kind, var |-> r.var]
    /\ ncalls' = ncalls + 1
    /\ UNCHANGED <<index_arg, index_ret, rendered, NEED_MASK>>

Load(name, index) == Called("load", load(kernel, name, index))
Store(name, index) == Called("store", store(kernel, name, index, LastValue(kernel)))
Reduction(name, reduction_type, index) ==
    Called("reduction", reduction(kernel, name, reduction_type, index, LastValue(kernel)))

\* kernel.codegen_kernel(), once no call raised
CodegenKernel ==
    /\ rendered = NotRendered
    /\ call_ret.kind \in {"pending", "returned"}
    /\ rendered' = codegen_kernel(kernel)
    /\ UNCHANGED <<kernel, index_arg, index_ret, ncalls, call_ret, NEED_MASK>>

KernelIdle ==
    /\ kernel = TritonKernel_init(1, 1)
    /\ index_arg = ZeroPoly
    /\ index_ret = IndexNotCalled
    /\ CallsIdle

\* the sizes of a dimension, and the size lists given to set_ranges
DimSizes == {2, 3}
Lengths(n) == UNION {[1..d -> DimSizes] : d \in 0..n}

\* the index expressions over the kernel's variables: a constant, a term in
\* each variable and in each product of two variables
Monomials(k) ==
    {{}} \cup {{v} : v \in KernelVarSet(k)}
    \cup {{v, w} : v, w \in KernelVarSet(k)}
IndexExprs(k) ==
    {[mono \in {x \in DOMAIN c : c[x] # 0} |-> c[mono]] : c \in [Monomials(k) -> 0..MaxCoef]}

\* TritonKernel(numel, reduction_numel)
IndexInit ==
    /\ kernel \in {TritonKernel_init(6, rn) : rn \in {1, 2}}
    /\ index_arg = ZeroPoly
    /\ index_ret = IndexNotCalled
    /\ CallsIdle

\* kernel.set_ranges(lengths, reduction_lengths) on the fresh kernel
SetRanges(lengths, reduction_lengths) ==
    /\ index_ret = IndexNotCalled
    /\ NumVars(kernel) = 0
    /\ NumVars(set_ranges(kernel, lengths, reduction_lengths).kernel) <= MaxVars
    /\ kernel' = set_ranges(kernel, lengths, reduction_lengths).kernel
    /\ UNCHANGED <<index_arg, index_ret, callVars>>

\* kernel.indexing(index), which leaves the kernel as it is: one call is tried
\* in each state of the kernel
Indexing(index) ==
    /\ index_ret = IndexNotCalled
    /\ index_arg' = index
    /\ index_ret' = indexing(kernel, index)
    /\ UNCHANGED <<kernel, callVars>>

(***************************************************************************)
(* TritonKernel.schedule_kernels (triton.py 285-324) and the Scheduler it  *)
(* drives.  A node of the pool has its ranges (the size lists of           *)
(* get_ranges) and the node it reads from (dep, 0 for a graph input).      *)
(***************************************************************************)
NoKey == <<1, 1>>
SchedIdle ==
    /\ nodes = <<>>
    /\ pool = {}
    /\ marked = {}
    /\ kernels = <<>>
    /\ kernel_stack = <<>>
    /\ reschedule = <<>>
    /\ popped = <<>>
    /\ progress = FALSE
    /\ barriers = 0
    /\ cur = NoKey
    /\ pc = "idle"

\* node.get_ranges()
get_ranges(node) == <<nodes[node].lengths, nodes[node].reduction_lengths>>
\* the key of a node: Scheduler(product, graph.buffers) groups the nodes by
\* the products of their two size lists
group_key(node) == <<product(get_ranges(node)[1]), product(get_ranges(node)[2])>>

\* a node can run once the node it reads from is realized (marked fusable)
runable(node) == node \in pool /\ (nodes[node].dep = 0 \/ nodes[node].dep \in marked)
\* Scheduler.iter_runable_groups(): the keys that have a runable node
iter_runable_groups == {group_key(node) : node \in {n \in pool : runable(n)}}
\* a set of nodes as the list in the order of the pool
RECURSIVE InOrder(_)
InOrder(S) ==
    IF S = {} THEN <<>>
    ELSE LET first == CHOOSE n \in S : \A m \in S : n <= m
         IN <<first>> \o InOrder(S \ {first})
\* Scheduler.pop_group(key): the runable nodes of that key, taken from the pool
pop_group(key) == InOrder({n \in pool : runable(n) /\ group_key(n) = key})
\* a slip: the deferred nodes are not put back
enqueue_drops(in_pool, list) == in_pool
\* Scheduler.enqueue(nodes)
enqueue(in_pool, list) == in_pool \cup SeqRange(list)
\* "with scheduler.kernel(k)": entering makes k the current kernel, leaving
\* (normally or by an exception) removes it and flushes its code
kernel_enter(stack, id) == Append(stack, id)
\* a slip: leaving the block does not remove the current kernel
kernel_exit_keeps(stack) == stack
kernel_exit(stack) == SubSeq(stack, 1, Len(stack) - 1)
Flushed(ks) == [ks EXCEPT ![Len(ks)].flushed = TRUE]
\* node.run(...) returned: the node is in the code of the current kernel
Ran(ks, node) == [ks EXCEPT ![Len(ks)].ran = Append(@, node)]
\* node.mark_fusable()
mark_fusable(set, node) == set \cup {node}

\* the keys of steps 3 and 4 (lines 303 and 317)
compatible_key(group, reduction_group) == <<group * reduction_group, 1>>
\* a slip: step 4 pops the key of step 3 again
fewer_dims_key_full(group, reduction_group) == <<group * reduction_group, 1>>
fewer_dims_key(group, reduction_group) == <<group, 1>>
\* a slip: the deferred node is not kept
reschedule_forget(list, node) == list
\* reschedule.append(node)
reschedule_append(list, node) == Append(list, node)

\* the shapes of the nodes: pointwise over 100, a reduction of 8 over 100,
\* pointwise over 100 * 8 as [100, 8] and as the flat [800]
Shapes ==
    {<<(<<100>>), (<<>>)>>, <<(<<100>>), (<<8>>)>>,
     <<(<<100, 8>>), (<<>>)>>, <<(<<800>>), (<<>>)>>}
\* a node reads a graph input (0), the node before it, or (an operation that
\* can never be placed) its own output
Deps(i) == {0, i} \cup (IF i > 1 THEN {i - 1} ELSE {})
Pools ==
    UNION {{f \in [1..n -> [lengths : {s[1] : s \in Shapes},
                            reduction_lengths : {s[2] : s \in Shapes},
                            dep : 0..n]] :
               \A i \in 1..n : /\ <<f[i].lengths, f[i].reduction_lengths>> \in Shapes
                               /\ f[i].dep \in Deps(i)} : n \in 1..MaxNodes}

\* scheduler = Scheduler(product, graph.buffers)
SchedInit ==
    /\ nodes \in Pools
    /\ pool = DOMAIN nodes
    /\ marked = {}
    /\ kernels = <<>>
    /\ kernel_stack = <<>>
    /\ reschedule = <<>>
    /\ popped = <<>>
    /\ progress = FALSE
    /\ barriers = 0
    /\ cur = NoKey
    /\ pc = "groups"

\* the next (group, reduction_group) of iter_runable_groups: reschedule = [],
\* the kernel is made and entered, the fixed-point loop starts
OpenKernel(key) ==
    /\ pc = "groups"
    /\ key \in iter_runable_groups
    /\ cur' = key
    /\ reschedule' = <<>>
    /\ kernel' = TritonKernel_init(key[1], key[2])
    /\ kernels' = Append(kernels, [key |-> key, ran |-> <<>>, flushed |-> FALSE])
    /\ kernel_stack' = kernel_enter(kernel_stack, Len(kernels) + 1)
    /\ progress' = TRUE
    /\ pc' = "fixed_point"
    /\ UNCHANGED <<nodes, pool, marked, popped, barriers>>

\* pop_group(key) at the head of one of the three inner loops
Pop(key) ==
    /\ popped' = pop_group(key)
    /\ pool' = pool \ SeqRange(pop_group(key))

\* a round of iter_fixed_point: pop_group((group, reduction_group))
FixedPointRound ==
    /\ pc = "fixed_point" /\ progress
    /\ Pop(cur)
    /\ progress' = (pop_group(cur) # <<>>)
    /\ pc' = "exact"
    /\ UNCHANGED <<nodes, marked, kernels, kernel_stack, reschedule, barriers, cur, kernel>>

\* a round popped nothing: the loop ends and the with block is left
FixedPointEnd ==
    /\ pc = "fixed_point" /\ ~progress
    /\ pc' = "exit"
    /\ UNCHANGED <<nodes, pool, marked, kernels, kernel_stack, reschedule, popped,
                   progress, barriers, cur, kernel>>

\* node.run(*kernel.set_ranges(lengths, reduction_lengths)) and
\* node.mark_fusable(); node.run may raise, which leaves the with block
RunNode(lengths, reduction_lengths, ok) ==
    /\ kernel' = set_ranges(kernel, lengths, reduction_lengths).kernel
    /\ IF ok
       THEN /\ kernels' = Ran(kernels, Head(popped))
            /\ marked' = mark_fusable(marked, Head(popped))
            /\ popped' = Tail(popped)
            /\ pc' = pc
       ELSE /\ pc' = "unwind"
            /\ UNCHANGED <<kernels, marked, popped>>

\* lines 293-298, one node of the exact group (maybe_remove_buffer elides a
\* buffer from the stored ones, which are no part of this state)
RunExact(ok) ==
    /\ pc = "exact" /\ popped # <<>>
    /\ RunNode(get_ranges(Head(popped))[1], get_ranges(Head(popped))[2], ok)
    /\ UNCHANGED <<nodes, pool, kernel_stack, reschedule, progress, barriers, cur>>

\* line 300: in a reduction kernel the compatible pointwise nodes are popped
EndExact ==
    /\ pc = "exact" /\ popped = <<>>
    /\ IF kernel.inside_reduction
       THEN /\ Pop(compatible_key(cur[1], cur[2]))
            /\ progress' = (progress \/ pop_group(compatible_key(cur[1], cur[2])) # <<>>)
            /\ pc' = "split"
       ELSE /\ pc' = "fixed_point"
            /\ UNCHANGED <<pool, popped, progress>>
    /\ UNCHANGED <<nodes, marked, kernels, kernel_stack, reschedule, barriers, cur, kernel>>

\* lines 302-313, one compatible pointwise node
RunSplit(ok) ==
    /\ pc = "split" /\ popped # <<>>
    /\ LET sizes == get_ranges(Head(popped))[1]
           split == split_sizes(sizes, cur[1], cur[2])
       IN IF split = None
          THEN /\ reschedule' = reschedule_append(reschedule, Head(popped))
               /\ popped' = Tail(popped)
               /\ UNCHANGED <<kernel, kernels, marked, pc>>
          ELSE /\ RunNode(SliceTo(sizes, split.val), SliceFrom(sizes, split.val), ok)
               /\ UNCHANGED reschedule
    /\ UNCHANGED <<nodes, pool, kernel_stack, progress, barriers, cur>>

\* lines 316-317: out of reduction mode, the nodes of (group, 1) are popped
EndSplit ==
    /\ pc = "split" /\ popped = <<>>
    /\ kernel' = [kernel EXCEPT !.inside_reduction = FALSE]
    /\ Pop(fewer_dims_key(cur[1], cur[2]))
    /\ progress' = (progress \/ pop_group(fewer_dims_key(cur[1], cur[2])) # <<>>)
    /\ pc' = "fewer"
    /\ UNCHANGED <<nodes, marked, kernels, kernel_stack, reschedule, barriers, cur>>

\* lines 317-319, one pointwise node of fewer dimensions
RunFewer(ok) ==
    /\ pc = "fewer" /\ popped # <<>>
    /\ RunNode(get_ranges(Head(popped))[1], get_ranges(Head(popped))[2], ok)
    /\ UNCHANGED <<nodes, pool, kernel_stack, reschedule, progress, barriers, cur>>

\* line 320: back in reduction mode
EndFewer ==
    /\ pc = "fewer" /\ popped = <<>>
    /\ kernel' = [kernel EXCEPT !.inside_reduction = TRUE]
    /\ pc' = "fixed_point"
    /\ UNCHANGED <<nodes, pool, marked, kernels, kernel_stack, reschedule, popped,
                   progress, barriers, cur>>

\* the with block is left normally
KernelExit ==
    /\ pc = "exit"
    /\ kernel_stack' = kernel_exit(kernel_stack)
    /\ kernels' = Flushed(kernels)
    /\ pc' = "enqueue"
    /\ UNCHANGED <<nodes, pool, marked, reschedule, popped, progress, barriers, cur, kernel>>

\* the with block is left by the exception of node.run, which then leaves
\* schedule_kernels
KernelExitRaised ==
    /\ pc = "unwind"
    /\ kernel_stack' = kernel_exit(kernel_stack)
    /\ kernels' = Flushed(kernels)
    /\ pc' = "raised"
    /\ UNCHANGED <<nodes, pool, marked, reschedule, popped, progress, barriers, cur, kernel>>

\* scheduler.enqueue(reschedule)
Enqueue ==
    /\ pc = "enqueue"
    /\ pool' = enqueue(pool, reschedule)
    /\ pc' = "barrier"
    /\ UNCHANGED <<nodes, marked, kernels, kernel_stack, reschedule, popped, progress,
                   barriers, cur, kernel>>

\* scheduler.barrier()
Barrier ==
    /\ pc = "barrier"
    /\ barriers' = barriers + 1
    /\ pc' = "groups"
    /\ UNCHANGED <<nodes, pool, marked, kernels, kernel_stack, reschedule, popped,
                   progress, cur, kernel>>

\* iter_runable_groups is exhausted with an empty pool: return scheduler
ReturnScheduler ==
    /\ pc = "groups" /\ pool = {}
    /\ pc' = "done"
    /\ UNCHANGED <<nodes, pool, marked, kernels, kernel_stack, reschedule, popped,
                   progress, barriers, cur, kernel>>

\* nodes remain and none can run: the compilation fails
FailUnschedulable ==
    /\ pc = "groups" /\ pool # {} /\ iter_runable_groups = {}
    /\ pc' = "unschedulable"
    /\ UNCHANGED <<nodes, pool, marked, kernels, kernel_stack, reschedule, popped,
                   progress, barriers, cur, kernel>>

(***************************************************************************)
(* A row of a launched reduction kernel: what the two lines emitted by     *)
(* TritonKernel.reduction (triton.py 134-139) compute over the lanes of    *)
(* the row.  A value is a number or an infinity.                           *)
(***************************************************************************)
Fin(v) == [inf |-> 0, val |-> v]
NegInf == [inf |-> -1, val |-> 0]
PosInf == [inf |-> 1, val |-> 0]
NotReduced == [inf |-> 2, val |-> 0]
Leq(a, b) == a.inf < b.inf \/ (a.inf = b.inf /\ a.val <= b.val)
Plus(a, b) ==
    IF a.inf # 0 THEN a ELSE IF b.inf # 0 THEN b ELSE Fin(a.val + b.val)

\* the value of a default as it is printed into the line
ParseLiteral(tok) ==
    IF tok.text = "float('-inf')" THEN NegInf
    ELSE IF tok.text = "float('inf')" THEN PosInf
    ELSE IF tok.text = "0" THEN Fin(0)
    ELSE Fin(tok.n)

\* mask_reduction of the prologue (lines 211-214): the row is below numel and
\* the lane (reduction0, counted from 0) is below reduction_numel
mask_reduction(k, ok) == [i \in 1..REDUCTION_SIZE |-> ok /\ (i - 1 < k.reduction_numel)]

\* "tl.where(mask_reduction, value, default) if NEED_MASK else value"
eval_where(line, lanes, maskrow, need_mask) ==
    IF need_mask
    THEN [i \in 1..Len(lanes) |-> IF maskrow[i] THEN lanes[i] ELSE ParseLiteral(line.other)]
    ELSE lanes

\* tl.sum(res, 1), tl.max(res, 1), tl.min(res, 1) over the lanes of the row
RECURSIVE tl_sum(_)
tl_sum(lanes) == IF Len(lanes) = 1 THEN lanes[1] ELSE Plus(lanes[1], tl_sum(Tail(lanes)))
RECURSIVE tl_max(_)
tl_max(lanes) ==
    IF Len(lanes) = 1 THEN lanes[1]
    ELSE LET rest == tl_max(Tail(lanes)) IN IF Leq(rest, lanes[1]) THEN lanes[1] ELSE rest
RECURSIVE tl_min(_)
tl_min(lanes) ==
    IF Len(lanes) = 1 THEN lanes[1]
    ELSE LET rest == tl_min(Tail(lanes)) IN IF Leq(lanes[1], rest) THEN lanes[1] ELSE rest
eval_reduce(line, lanes) ==
    IF line.op = "tl.sum" THEN tl_sum(lanes)
    ELSE IF line.op = "tl.max" THEN tl_max(lanes)
    ELSE tl_min(lanes)

\* the values a lane may hold: what it loaded, or, for a lane that is masked
\* out, whatever the unmasked part of the load left there
LaneValues == {Fin(v) : v \in -1..1}

ReduceIdle ==
    /\ row = <<>>
    /\ row_ok = FALSE
    /\ reduce_kind = ""
    /\ reduced = NotReduced

\* a reduction kernel TritonKernel(6, reduction_numel) launched over one row
ReduceInit ==
    /\ kernel \in {TritonKernel_init(6, rn) : rn \in 2..REDUCTION_SIZE}
    /\ index_arg = ZeroPoly
    /\ index_ret = IndexNotCalled
    /\ ncalls = 0
    /\ call_ret = NoCall
    /\ rendered = NotRendered
    /\ NEED_MASK \in BOOLEAN
    /\ row \in [1..REDUCTION_SIZE -> LaneValues]
    /\ row_ok \in BOOLEAN
    /\ reduce_kind = ""
    /\ reduced = NotReduced

\* the node loads its input: tmp0 = tl.load(...)
LoadRow ==
    /\ ncalls = 0
    /\ Called("load", load(kernel, "a", ZeroPoly))
    /\ UNCHANGED reduceVars

\* the node reduces what it loaded: reduction(name, dtype, kind, index, tmp0)
ReduceRow(reduction_type) ==
    /\ ncalls = 1 /\ reduce_kind = ""
    /\ Called("reduction", reduction(kernel, "c", reduction_type, ZeroPoly, LastValue(kernel)))
    /\ reduce_kind' = reduction_type
    /\ UNCHANGED <<row, row_ok, reduced>>

\* the launched kernel computes the two lines of the reduction over the row
RunRow ==
    /\ call_ret.op = "reduction" /\ call_ret.kind = "returned"
    /\ reduced = NotReduced
    /\ reduced' = eval_reduce(kernel.compute[2],
                      eval_where(kernel.compute[1], row,
                                 mask_reduction(kernel, row_ok), NEED_MASK))
    /\ UNCHANGED <<kernelVars, row, row_ok, reduce_kind>>

(***************************************************************************)
(* TritonKernel.call_kernel (triton.py 266-283) after codegen_kernel, as   *)
(* codegen_define_and_call calls them (150-155).                           *)
(***************************************************************************)
\* Kernel.rename_indexing (called by _add_ranges and indexing): a symbolic
\* size met for the first time becomes a parameter ks0, ks1, ... of the
\* kernel; the sizes of this model's range trees are numbers, which it skips
RECURSIVE rename_indexing(_, _)
rename_indexing(k, symbols) ==
    IF symbols = <<>> THEN k
    ELSE rename_indexing(
            IF Head(symbols) \in SeqRange(k.sizevars) THEN k
            ELSE [k EXCEPT !.sizevars = Append(@, Head(symbols))],
            Tail(symbols))

\* an argument of the launch: a graph buffer, a size symbol or a variable
Arg(kind, text, n) == [kind |-> kind, text |-> text, n |-> n]
\* a line of the call site
SiteLine(op, target, value, args) ==
    [op |-> op, target |-> target, value |-> value, args |-> args]
NoCallSite == <<>>
CallSiteIdle == call_site = NoCallSite

\* a slip: reduction_numel is passed whatever the mode
call_kernel_always_reduction(k, name) ==
    <<SiteLine("assign", name \o "_numel", k.numel, <<>>),
      SiteLine("launch", name, 0, <<Arg("var", name \o "_numel", 0),
                                    Arg("var", name \o "_reduction_numel", 0)>>)>>

\* call_kernel(schedule, name): the lines written to schedule.body
call_kernel(k, name) ==
    LET call_args0 ==
            [i \in 1..Len(k.input_buffers) |-> Arg("buffer", k.input_buffers[i], 0)]
            \o [i \in 1..Len(k.output_buffers) |-> Arg("buffer", k.output_buffers[i], 0)]
            \o [i \in 1..Len(k.sizevars) |-> Arg("size", k.sizevars[i].name, k.sizevars[i].n)]
        call_args1 == Append(call_args0, Arg("var", name \o "_numel", 0))
        call_args == IF k.inside_reduction
                     THEN Append(call_args1, Arg("var", name \o "_reduction_numel", 0))
                     ELSE call_args1
    IN <<SiteLine("assign", name \o "_numel", k.numel, <<>>)>>
       \o (IF k.inside_reduction
           THEN <<SiteLine("assign", name \o "_reduction_numel", k.reduction_numel, <<>>)>>
           ELSE <<>>)
       \o <<SiteLine("launch", name, 0, call_args)>>

\* the size symbols the ranges and indexes of a node may hold
SizeSymbols == {Symbol(prefix, n) : n \in 0..1}

\* TritonKernel(numel, reduction_numel)
CallInit ==
    /\ kernel \in {TritonKernel_init(6, rn) : rn \in {1, 2}}
    /\ index_arg = ZeroPoly
    /\ index_ret = IndexNotCalled
    /\ CallsIdle
    /\ call_site = NoCallSite

\* a node's ranges or indexes hold a size symbol: rename_indexing
RenameIndexing(symbols) ==
    /\ CanCall
    /\ kernel' = rename_indexing(kernel, symbols)
    /\ ncalls' = ncalls + 1
    /\ UNCHANGED <<index_arg, index_ret, call_ret, rendered, NEED_MASK, call_site>>

\* wrapper.define_kernel(kernel_name, kernel.codegen_kernel())
DefineKernel == CodegenKernel /\ UNCHANGED call_site

\* kernel.call_kernel(wrapper, kernel_name)
CallKernel ==
    /\ rendered # NotRendered
    /\ call_site = NoCallSite
    /\ call_site' = call_kernel(kernel, "kernel0")
    /\ UNCHANGED kernelVars

(***************************************************************************)
(* Calls of set_ranges, one after the other, on one kernel.                *)
(***************************************************************************)
NoRanges == <<<<>>, <<>>>>
EmptyLog == [a \in {} |-> NoRanges]
RangesIdle ==
    /\ ranges_arg = NoRanges
    /\ ranges_ret = NoRanges
    /\ ranges_log = EmptyLog

\* the size lists of the calls: up to MaxRank iteration sizes, at most one
\* reduction size
RangeArgs == Lengths(MaxRank) \X Lengths(1)

\* TritonKernel(numel, reduction_numel)
RangesInit ==
    /\ kernel \in {TritonKernel_init(6, rn) : rn \in {1, 2}}
    /\ index_arg = ZeroPoly
    /\ index_ret = IndexNotCalled
    /\ CallsIdle
    /\ RangesIdle

\* kernel.set_ranges(lengths, reduction_lengths), whatever was called before
SetRangesAgain(lengths, reduction_lengths) ==
    /\ ncalls < MaxRangeCalls
    /\ kernel' = set_ranges(kernel, lengths, reduction_lengths).kernel
    /\ ranges_arg' = <<lengths, reduction_lengths>>
    /\ ranges_ret' = set_ranges(kernel, lengths, reduction_lengths).ret
    /\ ranges_log' =
          IF <<lengths, reduction_lengths>> \in DOMAIN ranges_log THEN ranges_log
          ELSE (<<lengths, reduction_lengths>> :>
                   set_ranges(kernel, lengths, reduction_lengths).ret) @@ ranges_log
    /\ ncalls' = ncalls + 1
    /\ UNCHANGED <<index_arg, index_ret, call_ret, rendered, NEED_MASK>>

(***************************************************************************)
(* ExpandView.make_loader (ir.py 99-113).                                  *)
(***************************************************************************)
NoLoader == [made |-> FALSE, skip |-> 0]
NotLoaded == [kind |-> "pending", index |-> <<>>]
ExpandIdle ==
    /\ expand_view = [size |-> <<>>, data_size |-> <<>>]
    /\ expand_loader = NoLoader
    /\ expand_index = <<>>
    /\ expand_ret = NotLoaded

\* "for i in len(actual)": Python takes iter() of the int len(actual), which
\* raises TypeError for every int, before the body runs once
for_in_len(actual) == "TypeError"

\* load(index) of the loader: index = list(index[skip:]), the assert, the
\* loop, inner(index)
expand_load(loader, actual, index) ==
    LET sliced == SliceFrom(index, loader.skip)
    IN IF Len(sliced) # Len(actual)
       THEN [kind |-> "AssertionError", index |-> <<>>]
       ELSE [kind |-> for_in_len(actual), index |-> <<>>]

\* the sizes of the inner node, and the sizes it can be expanded to: leading
\* dimensions are added and a dimension of size 1 is broadcast
ExpandSizes == {1, 3}
InnerSizes == UNION {[1..n -> ExpandSizes] : n \in 0..MaxExpandRank}
Expands(target, actual) ==
    /\ Len(target) >= Len(actual)
    /\ \A i \in 1..Len(actual) :
          actual[i] = 1 \/ actual[i] = target[Len(target) - Len(actual) + i]
ExpandViews ==
    {v \in [size : InnerSizes, data_size : InnerSizes] : Expands(v.size, v.data_size)}
\* the index tuples of the target size
IndexTuples(size) ==
    {ix \in [1..Len(size) -> 0..2] : \A d \in 1..Len(size) : ix[d] < size[d]}

\* ExpandView(data, size)
ExpandInit ==
    /\ expand_view \in ExpandViews
    /\ expand_loader = NoLoader
    /\ expand_index = <<>>
    /\ expand_ret = NotLoaded

\* loader = view.make_loader()
MakeLoader ==
    /\ ~expand_loader.made
    /\ expand_loader' =
          [made |-> TRUE, skip |-> Len(expand_view.size) - Len(expand_view.data_size)]
    /\ UNCHANGED <<expand_view, expand_index, expand_ret>>

\* loader(index)
CallLoader(index) ==
    /\ expand_loader.made
    /\ expand_ret = NotLoaded
    /\ expand_index' = index
    /\ expand_ret' = expand_load(expand_loader, expand_view.data_size, index)
    /\ UNCHANGED <<expand_view, expand_loader>>

(***************************************************************************)
(* End to end: the graph reduce(a + b) over two 1-d inputs of one length.  *)
(* The add is a Loops node, a recipe without storage, so the graph has one *)
(* buffer to schedule, the reduction's, whose inner function evaluates the *)
(* add at the index it is given.                                           *)
(***************************************************************************)
GraphLengths == {8, 10, 100}
ReductionOfAdd(length, reduction_type) ==
    [lengths |-> <<>>, reduction_lengths |-> <<length>>, dep |-> 0,
     reduction_type |-> reduction_type]

\* scheduler = Scheduler(product, graph.buffers) for that graph
GraphInit ==
    /\ nodes \in {<<ReductionOfAdd(length, reduction_type)>> :
                     length \in GraphLengths, reduction_type \in ReductionTypes}
    /\ pool = DOMAIN nodes
    /\ marked = {}
    /\ kernels = <<>>
    /\ kernel_stack = <<>>
    /\ reschedule = <<>>
    /\ popped = <<>>
    /\ progress = FALSE
    /\ barriers = 0
    /\ cur = NoKey
    /\ pc = "groups"

\* node.run(vars, reduction_vars) of the reduction: both inputs are loaded
\* at the reduction variable (stride 1), added, and the sum is reduced into
\* the output "c" at offset 0
run_reduction_of_add(k, ranges, reduction_type) ==
    LET index == ({ranges[2][1]} :> 1)
        lhs == load(k, "a", index)
        rhs == load(lhs.kernel, "b", index)
        added == cse_generate(rhs.kernel, "compute",
                     Line("+", NoToken, NoToken, <<>>, lhs.var, rhs.var, ""))
    IN IF lhs.kind # "returned" THEN lhs
       ELSE IF rhs.kind # "returned" THEN rhs
       ELSE reduction(added.kernel, "c", reduction_type, ZeroPoly, added.var)

\* lines 293-298 for the node of the graph
RunReductionOfAdd ==
    /\ pc = "exact" /\ popped # <<>>
    /\ LET node == Head(popped)
           ranged == set_ranges(kernel, get_ranges(node)[1], get_ranges(node)[2])
           ran == run_reduction_of_add(ranged.kernel, ranged.ret, nodes[node].reduction_type)
       IN /\ kernel' = ran.kernel
          /\ IF ran.kind = "returned"
             THEN /\ kernels' = Ran(kernels, node)
                  /\ marked' = mark_fusable(marked, node)
                  /\ popped' = Tail(popped)
                  /\ pc' = pc
             ELSE /\ pc' = "unwind"
                  /\ UNCHANGED <<kernels, marked, popped>>
    /\ UNCHANGED <<nodes, pool, kernel_stack, reschedule, progress, barriers, cur>>

(***************************************************************************)
(* The box wrappers (ir.py 151-177).  A box is the chain of its wrapper    *)
(* classes, outermost first, over the node the innermost one wraps; Python *)
(* calls __getattr__ for a name the normal lookup does not find.           *)
(***************************************************************************)
NoAttr == [kind |-> "pending", owner |-> "", name |-> "", callable |-> FALSE]
Attr(owner, name, callable) ==
    [kind |-> "returned", owner |-> owner, name |-> name, callable |-> callable]
AttributeError == [kind |-> "AttributeError", owner |-> "", name |-> "", callable |-> FALSE]
BoxIdle ==
    /\ box_chain = <<>>
    /\ box_data = ""
    /\ attr_arg = ""
    /\ attr_ret = NoAttr

\* the nodes a box wraps, with their fields and their methods
Fields(cls) ==
    CASE cls = "UnrealizedBuffer" -> {"ranges", "device", "dtype"}
      [] cls = "InputBuffer" -> {"layout", "index", "name"}
      [] cls = "ExpandView" -> {"data", "size"}
      [] cls \in {"MutableBox", "TensorBox", "StorageBox"} -> {"data"}
Methods(cls) ==
    CASE cls = "UnrealizedBuffer" ->
             {"inner_fn", "create", "get_size", "get_dtype", "get_device"}
      [] cls = "InputBuffer" ->
             {"get_size", "get_dtype", "get_device", "make_loader", "get_stride"}
      [] cls = "ExpandView" -> {"get_size", "make_loader"}
      [] cls = "TensorBox" -> {"create", "mark_reuse", "codegen"}
      [] cls \in {"MutableBox", "StorageBox"} -> {}
NodeClasses == {"UnrealizedBuffer", "InputBuffer", "ExpandView"}
BoxChains == {<<"MutableBox">>, <<"StorageBox">>, <<"TensorBox", "StorageBox">>}
AttrNames ==
    UNION {Fields(cls) \cup Methods(cls) : cls \in NodeClasses \cup {"TensorBox"}}
    \cup {"realize"}

\* the normal lookup of a name on an object of class cls
lookup(cls, name) ==
    IF name \in Fields(cls) THEN Attr(cls, name, FALSE)
    ELSE IF name \in Methods(cls) THEN Attr(cls, name, TRUE)
    ELSE AttributeError

\* a slip: whatever the wrapped node has is returned, callable or not
getattr_returns_any(fn) == fn
\* __getattr__, after fn = getattr(self.data, name) (which may have raised)
MutableBox_getattr(fn) ==
    IF fn.kind = "AttributeError" THEN fn
    ELSE IF fn.callable THEN fn
    ELSE AttributeError

\* getattr(box, name) for the box of the chain over the node data
RECURSIVE getattr(_, _, _)
getattr(chain, data, name) ==
    IF chain = <<>> THEN lookup(data, name)
    ELSE IF lookup(Head(chain), name).kind = "returned" THEN lookup(Head(chain), name)
    ELSE MutableBox_getattr(getattr(Tail(chain), data, name))

\* a box as Loops.create makes it (lines 70-72, 164-165), or the one box of
\* another class, over a node of loops
BoxInit ==
    /\ box_chain \in BoxChains
    /\ box_data = "UnrealizedBuffer"
    /\ attr_arg = ""
    /\ attr_ret = NoAttr

\* innermost_box.data = node: the wrapped node is swapped in place
SwapData(node) ==
    /\ node # box_data
    /\ box_data' = node
    /\ UNCHANGED <<box_chain, attr_arg, attr_ret>>

\* box.<name>
GetAttr(name) ==
    /\ attr_arg' = name
    /\ attr_ret' = getattr(box_chain, box_data, name)
    /\ UNCHANGED <<box_chain, box_data>>

(***************************************************************************)
(* The index-derivation prologue of codegen_kernel (triton.py 232-254),    *)
(* the lanes of a launch that run it, and the row-major indexer of         *)
(* FixedLayout (ir.py 32-56) applied to the variables of a lane.           *)
(***************************************************************************)
Statement(target, op, arg, size) == [target |-> target, op |-> op, arg |-> arg, size |-> size]
VarName(sym) == Token(sym.name, sym.n)
\* tree.items() of the subtree below a path
Items(tree, path) ==
    {q \in DOMAIN tree : Len(q) = Len(path) + 1 /\ SubSeq(q, 1, Len(path)) = path}

\* a slip: the flat index is handed down undivided
walk_level_undivided(var, subindices, indices, size) ==
    <<Statement(var, "%", indices, size), Statement(subindices, "=", indices, 0)>>
\* lines 240-241: var = indices % size, subindices = indices // size
walk_level(var, subindices, indices, size) ==
    <<Statement(var, "%", indices, size), Statement(subindices, "//", indices, size)>>

\* walk_indices(indices, tree, prefix, cnt) on the subtree below path, and
\* its loop over the items, in the order they were inserted (a key inserted
\* later has a symbol minted later); st is the code written and the counter
RECURSIVE walk_indices(_, _, _, _, _)
RECURSIVE walk_items(_, _, _, _, _, _)
walk_indices(indices, tree, path, pre, cnt) ==
    walk_items(indices, Token(pre, cnt), tree, Items(tree, path), pre,
               [code |-> <<>>, cnt |-> cnt + 1])
walk_items(indices, subindices, tree, items, pre, st) ==
    IF items = {} THEN st
    ELSE LET item == CHOOSE q \in items : \A o \in items : tree[q].n <= tree[o].n
             size == item[Len(item)]
             var == VarName(tree[item])
         IN IF Items(tree, item) # {}
            THEN LET sub == walk_indices(subindices, tree, item, pre, st.cnt)
                 IN walk_items(indices, subindices, tree, items \ {item}, pre,
                       [code |-> st.code \o walk_level(var, subindices, indices, size)
                                 \o sub.code,
                        cnt |-> sub.cnt])
            ELSE walk_items(indices, subindices, tree, items \ {item}, pre,
                       [code |-> Append(st.code, Statement(var, "=", indices, 0)),
                        cnt |-> st.cnt])

\* lines 249-254: the two walks, each with a counter of its own
codegen_prologue(k) ==
    walk_indices(Token("indices", 0), k.iter_range_tree, <<>>, "indices", 1).code
    \o walk_indices(Token("reduction", 0), k.reduction_range_tree, <<>>, "reduction", 1).code

\* lines 201-210: indices0 is assigned in every kernel, reduction0 only
\* "if self.inside_reduction"
prologue_head(k, indices0, reduction0) ==
    IF k.inside_reduction
    THEN (Token("indices", 0) :> indices0) @@ (Token("reduction", 0) :> reduction0)
    ELSE (Token("indices", 0) :> indices0)

\* a lane runs the statements in order; a name read before any statement
\* assigned it is a NameError, and the lane goes no further
RECURSIVE run_prologue(_, _)
run_prologue(code, st) ==
    IF code = <<>> \/ st.kind # "returned" THEN st
    ELSE LET s == Head(code)
         IN IF s.arg \notin DOMAIN st.env
            THEN [kind |-> "NameError", env |-> st.env]
            ELSE LET value == IF s.op = "%" THEN st.env[s.arg] % s.size
                              ELSE IF s.op = "//" THEN st.env[s.arg] \div s.size
                              ELSE st.env[s.arg]
                 IN run_prologue(Tail(code),
                       [kind |-> "returned", env |-> (s.target :> value) @@ st.env])

\* FixedLayout.default_strides(sizes)
Reversed(s) == [i \in 1..Len(s) |-> s[Len(s) + 1 - i]]
RECURSIVE reversed_strides(_, _)
reversed_strides(sizes, acc) ==
    IF sizes = <<>> THEN acc
    ELSE reversed_strides(Tail(sizes), Append(acc, Head(sizes) * acc[Len(acc)]))
default_strides(sizes) ==
    IF Len(sizes) = 0 THEN <<>>
    ELSE Reversed(reversed_strides(Reversed(Tail(sizes)), <<1>>))
\* the indexer of make_indexer: sum(l * r for l, r in zip(index, stride)) + offset
RECURSIVE dot(_, _)
dot(index, stride) ==
    IF index = <<>> THEN 0 ELSE Head(index) * Head(stride) + dot(Tail(index), Tail(stride))
make_indexer(stride, offset, index) ==
    IF Len(index) # Len(stride) THEN [kind |-> "AssertionError", addr |-> 0]
    ELSE [kind |-> "returned", addr |-> dot(index, stride) + offset]
\* FixedLayout.indexer_from_sizes(sizes), applied to an index
indexer_from_sizes(sizes, index) == make_indexer(default_strides(sizes), 0, index)

NotWalked == [done |-> FALSE, code |-> <<>>]
WalkIdle ==
    /\ prologue = NotWalked
    /\ launch = <<>>

\* the size lists of the node of the kernel
WalkSizes == {1, 2, 3}
WalkLengths == UNION {[1..d -> WalkSizes] : d \in 0..MaxWalkRank}
WalkReductionLengths == UNION {[1..d -> WalkSizes] : d \in 0..1}

\* TritonKernel(numel, reduction_numel) for a node of such sizes
WalkInit ==
    /\ kernel \in {TritonKernel_init(product(lengths), product(reduction_lengths)) :
                      lengths \in WalkLengths, reduction_lengths \in WalkReductionLengths}
    /\ index_arg = ZeroPoly
    /\ index_ret = IndexNotCalled
    /\ CallsIdle
    /\ RangesIdle
    /\ WalkIdle

\* kernel.set_ranges(*node.get_ranges()): the one call of a kernel with one node
SetRangesOnce(lengths, reduction_lengths) ==
    /\ ncalls = 0
    /\ product(lengths) = kernel.numel
    /\ product(reduction_lengths) = kernel.reduction_numel
    /\ SetRangesAgain(lengths, reduction_lengths)
    /\ UNCHANGED <<prologue, launch>>

\* codegen_kernel, its prologue
CodegenPrologue ==
    /\ ncalls = 1
    /\ ~prologue.done
    /\ prologue' = [done |-> TRUE, code |-> codegen_prologue(kernel)]
    /\ UNCHANGED <<kernelVars, rangesVars, launch>>

\* the next lane of the launch (indices0, reduction0) runs the prologue; the
\* node's store addresses the element indexer(vars) as TensorBox.codegen
\* does. Unassigned stands for a variable the lane never assigned.
Unassigned == 0 - 1
VarValues(env, symbols) ==
    [i \in 1..Len(symbols) |->
        IF VarName(symbols[i]) \in DOMAIN env THEN env[VarName(symbols[i])]
        ELSE Unassigned]
RunLane ==
    /\ prologue.done
    /\ Len(launch) < kernel.numel * kernel.reduction_numel
    /\ LET indices0 == Len(launch) \div kernel.reduction_numel
           reduction0 == Len(launch) % kernel.reduction_numel
           ran == run_prologue(prologue.code,
                     [kind |-> "returned",
                      env |-> prologue_head(kernel, indices0, reduction0)])
       IN launch' = Append(launch,
             [indices0 |-> indices0,
              reduction0 |-> reduction0,
              kind |-> ran.kind,
              vars |-> VarValues(ran.env, ranges_ret[1]),
              reduction_vars |-> VarValues(ran.env, ranges_ret[2]),
              addr |-> indexer_from_sizes(ranges_arg[1], VarValues(ran.env, ranges_ret[1])),
              reduction_addr |->
                 indexer_from_sizes(ranges_arg[2], VarValues(ran.env, ranges_ret[2]))])
    /\ UNCHANGED <<kernelVars, rangesVars, prologue>>

(***************************************************************************)
(* GradModeVariable (variables/misc.py 84-119): the grad mode of torch,    *)
(* the output graph of the frame being traced, the variables built for     *)
(* torch.no_grad(), torch.enable_grad() and torch.set_grad_enabled(), and  *)
(* the with-blocks the frame has entered and not yet left.                 *)
(***************************************************************************)
\* tx.output.graph.create_node("call_function", torch._C._set_grad_enabled, (value,), {})
create_node(value) == [op |-> "call_function", target |-> "_set_grad_enabled", args |-> <<value>>]
\* the part of the world a call changes: torch.is_grad_enabled() and the graph
Tx(mode, graph) == [grad_enabled |-> mode, graph |-> graph]

\* a slip: the node is recorded and the mode of torch is left as it was
change_mode_graph_only(tx, value) ==
    Tx(tx.grad_enabled, Append(tx.graph, create_node(value)))
\* GradModeVariable._change_mode(tx, value)
change_mode(tx, value) == Tx(value, Append(tx.graph, create_node(value)))

\* GradModeVariable(target_mode, original_mode=None)
GradModeVariable(target_mode, original_mode, tx) ==
    [target_mode |-> target_mode,
     original_mode |-> IF original_mode = "None" THEN tx.grad_enabled
                       ELSE original_mode = "True"]
\* GradModeVariable.enter(tx)
enter(self, tx) ==
    IF self.original_mode # tx.grad_enabled
    THEN [kind |-> "AssertionError", tx |-> tx]
    ELSE [kind |-> "returned",
          tx |-> IF self.target_mode # self.original_mode
                 THEN change_mode(tx, self.target_mode) ELSE tx]
\* GradModeVariable.exit(tx, *args)
exit(self, tx) ==
    [kind |-> "returned",
     tx |-> IF self.target_mode # self.original_mode
            THEN change_mode(tx, self.original_mode) ELSE tx]

NoGradCall ==
    [op |-> "none", kind |-> "none",
     self |-> [target_mode |-> FALSE, original_mode |-> FALSE],
     before |-> Tx(FALSE, <<>>)]
GradIdle ==
    /\ grad_enabled = TRUE
    /\ fx_graph = <<>>
    /\ grad_vars = <<>>
    /\ with_stack = <<>>
    /\ grad_ret = NoGradCall

\* a frame starts in either grad mode, with an empty graph
GradInit ==
    /\ grad_enabled \in BOOLEAN
    /\ fx_graph = <<>>
    /\ grad_vars = <<>>
    /\ with_stack = <<>>
    /\ grad_ret = NoGradCall

\* the frame evaluates torch.no_grad(), torch.enable_grad() or
\* torch.set_grad_enabled(mode)
OriginalModes == {"None", "True", "False"}
NewGradModeVariable(target_mode, original_mode) ==
    /\ Len(grad_vars) < MaxGradVars
    /\ grad_vars' = Append(grad_vars,
          GradModeVariable(target_mode, original_mode, Tx(grad_enabled, fx_graph)))
    /\ UNCHANGED <<grad_enabled, fx_graph, with_stack, grad_ret>>

\* SETUP_WITH on a variable of the frame: ctx.enter(tx); the block is entered
\* if the call returns
CallEnter(i) ==
    /\ Len(with_stack) < MaxWithDepth
    /\ Len(fx_graph) < MaxGraphNodes
    /\ LET ret == enter(grad_vars[i], Tx(grad_enabled, fx_graph))
       IN /\ grad_enabled' = ret.tx.grad_enabled
          /\ fx_graph' = ret.tx.graph
          /\ with_stack' = IF ret.kind = "returned" THEN Append(with_stack, i)
                           ELSE with_stack
          /\ grad_ret' = [op |-> "enter", kind |-> ret.kind, self |-> grad_vars[i],
                          before |-> Tx(grad_enabled, fx_graph)]
    /\ UNCHANGED grad_vars

\* the end of the innermost block: WithExitFunctionVariable.call_function
\* calls ctx.exit(tx, *args)
CallExit ==
    /\ with_stack # <<>>
    /\ LET self == grad_vars[with_stack[Len(with_stack)]]
           ret == exit(self, Tx(grad_enabled, fx_graph))
       IN /\ grad_enabled' = ret.tx.grad_enabled
          /\ fx_graph' = ret.tx.graph
          /\ grad_ret' = [op |-> "exit", kind |-> ret.kind, self |-> self,
                          before |-> Tx(grad_enabled, fx_graph)]
    /\ with_stack' = SubSeq(with_stack, 1, Len(with_stack) - 1)
    /\ UNCHANGED grad_vars

(***************************************************************************)
(* The specifications, one per component.                                  *)
(***************************************************************************)
ExtraIdle ==
    /\ ReduceIdle /\ CallSiteIdle /\ RangesIdle /\ ExpandIdle /\ BoxIdle /\ WalkIdle
    /\ GradIdle

InitSplit == SplitInit /\ AllocIdle /\ KernelIdle /\ SchedIdle /\ ExtraIdle
NextSplit == SplitCall /\ UNCHANGED <<allocVars, kernelVars, schedVars, extraVars>>
SpecSplit == InitSplit /\ [][NextSplit]_vars

InitAlloc == AllocInit /\ SplitIdle /\ KernelIdle /\ SchedIdle /\ ExtraIdle
NextAlloc == \E val \in Values : Lookup(val) /\ UNCHANGED <<splitVars, kernelVars, schedVars, extraVars>>
SpecAlloc == InitAlloc /\ [][NextAlloc]_vars

InitCodegen == CodegenInit /\ SplitIdle /\ KernelIdle /\ SchedIdle /\ ExtraIdle
NextCodegen ==
    \/ LookupNovel /\ UNCHANGED <<splitVars, kernelVars, schedVars, extraVars>>
    \/ DeclareInput /\ UNCHANGED <<splitVars, kernelVars, schedVars, extraVars>>
    \/ Codegen /\ UNCHANGED <<splitVars, kernelVars, schedVars, extraVars>>
SpecCodegen == InitCodegen /\ [][NextCodegen]_vars

InitIndex == IndexInit /\ SplitIdle /\ AllocIdle /\ SchedIdle /\ ExtraIdle
NextIndex ==
    \/ /\ index_ret = IndexNotCalled /\ NumVars(kernel) = 0
       /\ \E lengths, reduction_lengths \in Lengths(MaxVars) :
             SetRanges(lengths, reduction_lengths)
       /\ UNCHANGED <<splitVars, allocVars, schedVars, extraVars>>
    \/ /\ index_ret = IndexNotCalled
       /\ \E index \in IndexExprs(kernel) : Indexing(index)
       /\ UNCHANGED <<splitVars, allocVars, schedVars, extraVars>>
SpecIndex == InitIndex /\ [][NextIndex]_vars

InitKernel == KernelInit /\ SplitIdle /\ AllocIdle /\ SchedIdle /\ ExtraIdle
NextKernel ==
    \/ /\ ncalls = 0 /\ NumVars(kernel) = 0 /\ rendered = NotRendered
       /\ \E lengths, reduction_lengths \in UNION {[1..d -> {2}] : d \in 0..MaxVars} :
             RegisterRanges(lengths, reduction_lengths)
       /\ UNCHANGED <<splitVars, allocVars, schedVars, extraVars>>
    \/ /\ CanCall
       /\ \E name \in Buffers, index \in CallIndexes(kernel) : Load(name, index)
       /\ UNCHANGED <<splitVars, allocVars, schedVars, extraVars>>
    \/ /\ CanCall
       /\ \E index \in CallIndexes(kernel) : Store("c", index)
       /\ UNCHANGED <<splitVars, allocVars, schedVars, extraVars>>
    \/ /\ CanCall
       /\ \E reduction_type \in ReductionTypes, index \in CallIndexes(kernel) :
             Reduction("c", reduction_type, index)
       /\ UNCHANGED <<splitVars, allocVars, schedVars, extraVars>>
    \/ CodegenKernel /\ UNCHANGED <<splitVars, allocVars, schedVars, extraVars>>
SpecKernel == InitKernel /\ [][NextKernel]_vars

InitSched == SchedInit /\ SplitIdle /\ AllocIdle /\ KernelIdle /\ ExtraIdle
SchedRest == UNCHANGED <<splitVars, allocVars, index_arg, index_ret, callVars, extraVars>>
NextSched ==
    \/ (\E key \in iter_runable_groups : OpenKernel(key)) /\ SchedRest
    \/ FixedPointRound /\ SchedRest
    \/ FixedPointEnd /\ SchedRest
    \/ (\E ok \in BOOLEAN : RunExact(ok)) /\ SchedRest
    \/ EndExact /\ SchedRest
    \/ (\E ok \in BOOLEAN : RunSplit(ok)) /\ SchedRest
    \/ EndSplit /\ SchedRest
    \/ (\E ok \in BOOLEAN : RunFewer(ok)) /\ SchedRest
    \/ EndFewer /\ SchedRest
    \/ KernelExit /\ SchedRest
    \/ KernelExitRaised /\ SchedRest
    \/ Enqueue /\ SchedRest
    \/ Barrier /\ SchedRest
    \/ ReturnScheduler /\ SchedRest
    \/ FailUnschedulable /\ SchedRest
SpecSched == InitSched /\ [][NextSched]_vars

\* schedule_kernels is one synchronous pass on one thread: a step that can be
\* taken is taken (node.run returns or raises)
InitSchedFair == InitSched /\ Len(nodes) <= MaxFairNodes
SpecSchedFair == InitSchedFair /\ [][NextSched]_vars /\ WF_vars(NextSched)

InitReduce ==
    /\ ReduceInit /\ SplitIdle /\ AllocIdle /\ SchedIdle /\ CallSiteIdle /\ RangesIdle
    /\ ExpandIdle /\ BoxIdle /\ WalkIdle
    /\ GradIdle
ReduceRest == UNCHANGED <<splitVars, allocVars, schedVars, call_site, rangesVars, expandVars, boxVars,
                walkVars, gradVars>>
NextReduce ==
    \/ LoadRow /\ ReduceRest
    \/ (\E reduction_type \in {"sum", "max", "min"} : ReduceRow(reduction_type)) /\ ReduceRest
    \/ RunRow /\ ReduceRest
SpecReduce == InitReduce /\ [][NextReduce]_vars

InitCall ==
    /\ CallInit /\ SplitIdle /\ AllocIdle /\ SchedIdle /\ ReduceIdle /\ RangesIdle
    /\ ExpandIdle /\ BoxIdle /\ WalkIdle
    /\ GradIdle
CallRest == UNCHANGED <<splitVars, allocVars, schedVars, reduceVars, rangesVars, expandVars, boxVars,
                walkVars, gradVars>>
NextCall ==
    \/ /\ CanCall
       /\ \E name \in Buffers : Load(name, ZeroPoly)
       /\ UNCHANGED call_site /\ CallRest
    \/ /\ CanCall
       /\ \E name \in {"a", "c"} : Store(name, ZeroPoly)
       /\ UNCHANGED call_site /\ CallRest
    \/ /\ CanCall
       /\ \E symbol \in SizeSymbols : RenameIndexing(<<symbol>>)
       /\ CallRest
    \/ DefineKernel /\ CallRest
    \/ CallKernel /\ CallRest
SpecCall == InitCall /\ [][NextCall]_vars

InitRanges ==
    /\ RangesInit /\ SplitIdle /\ AllocIdle /\ SchedIdle /\ ReduceIdle /\ CallSiteIdle
    /\ ExpandIdle /\ BoxIdle /\ WalkIdle
    /\ GradIdle
NextRanges ==
    /\ \E a \in RangeArgs : SetRangesAgain(a[1], a[2])
    /\ UNCHANGED <<splitVars, allocVars, schedVars, reduceVars, call_site, expandVars, boxVars,
                walkVars, gradVars>>
SpecRanges == InitRanges /\ [][NextRanges]_vars

InitExpand ==
    /\ ExpandInit /\ SplitIdle /\ AllocIdle /\ KernelIdle /\ SchedIdle
    /\ ReduceIdle /\ CallSiteIdle /\ RangesIdle /\ BoxIdle /\ WalkIdle
    /\ GradIdle
ExpandRest ==
    UNCHANGED <<splitVars, allocVars, kernelVars, schedVars, reduceVars, call_site,
                rangesVars, boxVars, walkVars, gradVars>>
NextExpand ==
    \/ MakeLoader /\ ExpandRest
    \/ (\E index \in IndexTuples(expand_view.size) : CallLoader(index)) /\ ExpandRest
SpecExpand == InitExpand /\ [][NextExpand]_vars

InitGraph == GraphInit /\ SplitIdle /\ AllocIdle /\ KernelIdle /\ ExtraIdle
NextGraph ==
    \/ (\E key \in iter_runable_groups : OpenKernel(key)) /\ SchedRest
    \/ FixedPointRound /\ SchedRest
    \/ FixedPointEnd /\ SchedRest
    \/ RunReductionOfAdd /\ SchedRest
    \/ EndExact /\ SchedRest
    \/ EndSplit /\ SchedRest
    \/ EndFewer /\ SchedRest
    \/ KernelExit /\ SchedRest
    \/ KernelExitRaised /\ SchedRest
    \/ Enqueue /\ SchedRest
    \/ Barrier /\ SchedRest
    \/ ReturnScheduler /\ SchedRest
SpecGraph == InitGraph /\ [][NextGraph]_vars

InitBox ==
    /\ BoxInit /\ SplitIdle /\ AllocIdle /\ KernelIdle /\ SchedIdle
    /\ ReduceIdle /\ CallSiteIdle /\ RangesIdle /\ ExpandIdle /\ WalkIdle
    /\ GradIdle
BoxRest ==
    UNCHANGED <<splitVars, allocVars, kernelVars, schedVars, reduceVars, call_site,
                rangesVars, expandVars, walkVars, gradVars>>
NextBox ==
    \/ (\E node \in NodeClasses : SwapData(node)) /\ BoxRest
    \/ (\E name \in AttrNames : GetAttr(name)) /\ BoxRest
SpecBox == InitBox /\ [][NextBox]_vars

InitWalk ==
    /\ WalkInit /\ SplitIdle /\ AllocIdle /\ SchedIdle /\ ReduceIdle /\ CallSiteIdle
    /\ ExpandIdle /\ BoxIdle /\ GradIdle
WalkRest ==
    UNCHANGED <<splitVars, allocVars, schedVars, reduceVars, call_site, expandVars, boxVars,
                gradVars>>
NextWalk ==
    \/ /\ ncalls = 0
       /\ \E lengths \in WalkLengths, reduction_lengths \in WalkReductionLengths :
             SetRangesOnce(lengths, reduction_lengths)
       /\ WalkRest
    \/ CodegenPrologue /\ WalkRest
    \/ RunLane /\ WalkRest
SpecWalk == InitWalk /\ [][NextWalk]_vars

InitGrad ==
    /\ GradInit /\ SplitIdle /\ AllocIdle /\ KernelIdle /\ SchedIdle
    /\ ReduceIdle /\ CallSiteIdle /\ RangesIdle /\ ExpandIdle /\ BoxIdle /\ WalkIdle
GradRest ==
    UNCHANGED <<splitVars, allocVars, kernelVars, schedVars, reduceVars, call_site,
                rangesVars, expandVars, boxVars, walkVars>>
NextGrad ==
    \/ /\ Len(grad_vars) < MaxGradVars
       /\ \E target_mode \in BOOLEAN, original_mode \in OriginalModes :
             NewGradModeVariable(target_mode, original_mode)
       /\ GradRest
    \/ /\ Len(with_stack) < MaxWithDepth
       /\ \E i \in 1..Len(grad_vars) : CallEnter(i)
       /\ GradRest
    \/ CallExit /\ GradRest
SpecGrad == InitGrad /\ [][NextGrad]_vars

(***************************************************************************)
(* The claims.                                                             *)
(***************************************************************************)
\* the runs of a node: the places it has in the code of the kernels
Runs(node) ==
    {p \in UNION {{<<k, i>> : i \in 1..Len(kernels[k].ran)} : k \in 1..Len(kernels)} :
        kernels[p[1]].ran[p[2]] = node}
KernelsOf(node) == {p[1] : p \in Runs(node)}
\* the node waits on its own output, directly or through the nodes it reads
RECURSIVE NeverRunable(_)
NeverRunable(node) ==
    IF nodes[node].dep = 0 THEN FALSE
    ELSE IF nodes[node].dep = node THEN TRUE
    ELSE NeverRunable(nodes[node].dep)
SchedulerReturned == pc = "done"

\* C1: no node is ever run twice; when schedule_kernels returns, every node of
\* the pool has been run exactly once (a node that was deferred to the
\* reschedule list too) and the pool is empty; with a node that can never be
\* placed in the pool schedule_kernels does not return.
C1_EveryNodeRunOnce ==
    /\ \A node \in DOMAIN nodes : Cardinality(Runs(node)) <= 1
    /\ SchedulerReturned =>
          /\ \A node \in DOMAIN nodes : Cardinality(Runs(node)) = 1
          /\ pool = {}
    /\ (\E node \in DOMAIN nodes : NeverRunable(node)) => ~SchedulerReturned

\* schedule_kernels returned after a flat [800] node, runable from the start,
\* was deferred by a (100, 8) kernel and run by a later kernel
C1_DeferredNodeRunLater ==
    /\ SchedulerReturned
    /\ \E node \in DOMAIN nodes :
          /\ nodes[node].lengths = <<800>> /\ nodes[node].dep = 0
          /\ \E k1, k2 \in 1..Len(kernels) :
                k1 < k2 /\ kernels[k1].key = <<100, 8>> /\ KernelsOf(node) = {k2}

Pointwise100 == {node \in DOMAIN nodes : group_key(node) = <<100, 1>>}
Reduction100x8 == {node \in DOMAIN nodes : group_key(node) = <<100, 8>>}
\* the pool of C2: two (100, 1) nodes and one (100, 8) node, reading graph inputs
IsC2Pool ==
    /\ Len(nodes) = 3
    /\ Cardinality(Pointwise100) = 2 /\ Cardinality(Reduction100x8) = 1
    /\ \A node \in DOMAIN nodes : nodes[node].dep = 0
C2_OneKernelEach == \A node \in DOMAIN nodes : Cardinality(KernelsOf(node)) = 1
C2_PointwiseTogether == \A p, q \in Pointwise100 : KernelsOf(p) = KernelsOf(q)
C2_ReductionApart ==
    \A r \in Reduction100x8 : \A p \in Pointwise100 : KernelsOf(r) # KernelsOf(p)

\* C2 as stated: for that pool, in whatever order the groups are iterated, the
\* two (100, 1) nodes are in one kernel, the (100, 8) node is in another one,
\* and no node is in two kernels.
C2_ThirdAlwaysApart ==
    (IsC2Pool /\ SchedulerReturned) =>
        C2_OneKernelEach /\ C2_PointwiseTogether /\ C2_ReductionApart

\* C2 amended: for that pool the two (100, 1) nodes are in one kernel and no
\* node is in two kernels; the (100, 8) node is in a kernel of its own exactly
\* when the group (100, 1) is iterated first.  When (100, 8) is iterated first
\* its kernel absorbs the two pointwise nodes (step 4) and there is one kernel.
C2_ThirdApartIffPointwiseFirst ==
    (IsC2Pool /\ SchedulerReturned) =>
        /\ C2_OneKernelEach /\ C2_PointwiseTogether
        /\ C2_ReductionApart <=> kernels[1].key = <<100, 1>>
        /\ kernels[1].key = <<100, 8>> => Len(kernels) = 1

\* the three nodes were scheduled into one reduction kernel
C2_AllInOneKernel == IsC2Pool /\ SchedulerReturned /\ Len(kernels) = 1

OutsideBlock == pc \in {"groups", "enqueue", "barrier", "done", "raised", "unschedulable"}

\* C3: at most one kernel is the current kernel; a kernel that is not closed
\* is the last one opened and is the current one, so every kernel is closed
\* before the next is opened; outside the with block, also after node.run
\* raised partway, no kernel is current and every kernel is closed.
C3_OneKernelOpen ==
    /\ Len(kernel_stack) <= 1
    /\ \A k \in 1..Len(kernels) :
          ~kernels[k].flushed => k = Len(kernels) /\ kernel_stack = <<k>>
    /\ OutsideBlock =>
          /\ kernel_stack = <<>>
          /\ \A k \in 1..Len(kernels) : kernels[k].flushed

\* node.run raised in a second kernel that had already run a node
C3_SecondKernelFailedPartway ==
    /\ pc = "raised"
    /\ Len(kernels) >= 2
    /\ kernels[Len(kernels)].ran # <<>>

\* some prefix of the sizes has product group and the rest reduction_group
HasSplitPoint(sizes, group, reduction_group) ==
    \E i \in 0..Len(sizes) :
       product(SliceTo(sizes, i)) = group /\ product(SliceFrom(sizes, i)) = reduction_group
Deferred == SeqRange(reschedule)
\* in the with block: a deferred node is a compatible pointwise node without
\* split point; it is out of the pool, not run and not marked fusable; and no
\* compatible node without split point is in the code of a reduction kernel
C4_InBlock ==
    /\ pc \in {"fixed_point", "exact", "split", "fewer", "exit", "unwind", "enqueue"} =>
          \A node \in Deferred :
             /\ group_key(node) = <<cur[1] * cur[2], 1>> /\ cur[2] # 1
             /\ ~HasSplitPoint(get_ranges(node)[1], cur[1], cur[2])
             /\ node \notin pool /\ node \notin marked /\ Runs(node) = {}
    /\ \A k \in 1..Len(kernels) : \A i \in 1..Len(kernels[k].ran) :
          LET node == kernels[k].ran[i]
              key == kernels[k].key
          IN (key[2] # 1 /\ group_key(node) = <<key[1] * key[2], 1>>) =>
                HasSplitPoint(get_ranges(node)[1], key[1], key[2])
\* after the with block was left normally: the kernel is closed when the
\* deferred nodes are enqueued, and they are in the pool when the barrier is
\* inserted
C4_AfterBlock ==
    /\ pc = "enqueue" =>
          kernel_stack = <<>> /\ kernels[Len(kernels)].flushed /\ barriers = Len(kernels) - 1
    /\ pc = "barrier" =>
          kernel_stack = <<>> /\ Deferred \subseteq pool /\ barriers = Len(kernels) - 1
    /\ pc = "groups" => Deferred \subseteq pool /\ barriers = Len(kernels)

\* C4 as stated: a compatible pointwise node without split point is not run in
\* the open reduction kernel and not marked fusable but deferred; after the
\* kernel is closed it is enqueued and then the barrier is inserted; and the
\* same when the block is left by a failure.
C4_RequeuedOnEveryExit ==
    /\ C4_InBlock
    /\ C4_AfterBlock
    /\ (pc = "raised" /\ Deferred # {}) =>
          kernel_stack = <<>> /\ Deferred \subseteq pool /\ barriers = Len(kernels)

\* C4 amended: as stated for the block left normally; when the block is left
\* by a failure the kernel is closed, but the deferred node is not enqueued
\* and no barrier is inserted: the failure leaves schedule_kernels.
C4_RequeuedOnNormalExit ==
    /\ C4_InBlock
    /\ C4_AfterBlock
    /\ pc = "raised" =>
          /\ kernel_stack = <<>>
          /\ Deferred \cap pool = {}
          /\ \A node \in Deferred : Runs(node) = {} /\ node \notin marked
          /\ barriers = Len(kernels) - 1

\* node.run raised in a kernel that had deferred a node
C4_FailedAfterDeferring == pc = "raised" /\ Deferred # {}

SplitReturned == split_ret # Pending
PrefixLengths(sizes, prod1) == {k \in 0..Len(sizes) : product(SliceTo(sizes, k)) = prod1}

\* C5 as stated: when prod1 * prod2 = product(sizes), split_sizes returns the
\* length of a prefix of product prod1 if a prefix of any length 0..len(sizes)
\* has that product (the whole list included), and None otherwise.
C5_SplitFindsAnyPrefix ==
    (SplitReturned /\ split_args.prod1 * split_args.prod2 = product(split_args.sizes)) =>
        IF PrefixLengths(split_args.sizes, split_args.prod1) # {}
        THEN /\ split_ret.kind = "int"
             /\ split_ret.val \in PrefixLengths(split_args.sizes, split_args.prod1)
        ELSE split_ret = None

IsExample == split_args = [sizes |-> <<2, 3, 4>>, prod1 |-> 6, prod2 |-> 4]

\* C6 as stated: split_sizes([2,3,4], 6, 4) returns 1.
C6_ExampleReturnsOne == (IsExample /\ SplitReturned) => split_ret = Some(1)

\* C6 amended: split_sizes([2,3,4], 6, 4) returns 2, the length of the prefix
\* [2,3] of product 6.
C6_ExampleReturnsTwo == (IsExample /\ SplitReturned) => split_ret = Some(2)

C6_ExampleCalled == IsExample /\ SplitReturned

IndexCalled == index_ret # IndexNotCalled
IterVarSet == SeqRange(kernel.iter_vars)
ReductionVarSet == SeqRange(kernel.reduction_vars)
\* the expression is built from iteration variables (and constants) only
OnlyIterVars(index) == \A mono \in DOMAIN index : mono \subseteq IterVarSet
\* some term of the expression contains a registered reduction variable
DependsOnReductionVar(index) == \E mono \in DOMAIN index : mono \cap ReductionVarSet # {}
\* some term of the expression is built from reduction variables only
HasPureReductionTerm(index) ==
    \E mono \in DOMAIN index : mono # {} /\ mono \subseteq ReductionVarSet

\* C7 as stated: an index built only from iteration variables has a zero
\* reduction_part and indexing returns; an index that depends on a registered
\* reduction variable, outside a reduction, is rejected by the assert and no
\* address is returned.
C7_RejectsEveryReductionDependence ==
    IndexCalled =>
        /\ OnlyIterVars(index_arg) =>
              /\ reduction_part(kernel, index_arg) = ZeroPoly
              /\ index_ret.kind = "returned"
        /\ (DependsOnReductionVar(index_arg) /\ ~kernel.inside_reduction) =>
              /\ index_ret.kind = "AssertionError"
              /\ index_ret.addr = <<>>

\* what indexing does: an index built only from iteration variables has a
\* zero reduction_part and indexing returns in either mode; outside a
\* reduction, indexing is rejected (and returns no address) exactly when the
\* index has a term built from reduction variables only.  A reduction variable
\* that only multiplies an iteration variable (i0*r1) leaves reduction_part
\* zero: the call returns and the term is in no part of the address.
RejectsPureReductionTerms ==
    IndexCalled =>
        /\ OnlyIterVars(index_arg) =>
              /\ reduction_part(kernel, index_arg) = ZeroPoly
              /\ index_ret.kind = "returned"
        /\ ~kernel.inside_reduction =>
              /\ index_ret.kind = "AssertionError" <=> HasPureReductionTerm(index_arg)
              /\ index_ret.kind = "AssertionError" => index_ret.addr = <<>>
              /\ index_ret.kind = "returned" =>
                    \A i \in 1..Len(index_ret.addr) :
                       \A mono \in DOMAIN index_ret.addr[i].expr : mono \subseteq IterVarSet

\* the mask variable a load/store line passes as its mask= argument
MaskVariable(line) ==
    IF line.mask = "mask=mask" THEN "mask"
    ELSE IF line.mask = "mask=mask_reduction" THEN "mask_reduction" ELSE ""
LoadStoreLines ==
    {rendered.body[i] :
        i \in {j \in 1..Len(rendered.body) : rendered.body[j].op \in {"tl.load", "tl.store"}}}
Masked(line) ==
    /\ MaskVariable(line) \in DOMAIN rendered.masks
    /\ mask_binding(rendered, NEED_MASK, MaskVariable(line)) # "None"

\* C8 as stated: in the kernel compiled with NEED_MASK false no load/store
\* line names a mask variable; in the kernel compiled with NEED_MASK true
\* every load/store line is masked.
C8_UnmaskedLinesNameNoMask ==
    rendered # NotRendered =>
        \A line \in LoadStoreLines :
           IF NEED_MASK THEN Masked(line) ELSE MaskVariable(line) = ""

\* C8 amended: every load/store line names a mask variable whatever NEED_MASK
\* is, and the prologue of the kernel binds that variable: to None when
\* NEED_MASK is false (the line is unmasked) and to the bounds test when
\* NEED_MASK is true (the line is masked).
C8_MaskBoundPerMode ==
    rendered # NotRendered =>
        \A line \in LoadStoreLines :
           /\ MaskVariable(line) \in DOMAIN rendered.masks
           /\ NEED_MASK => Masked(line)
           /\ ~NEED_MASK =>
                 mask_binding(rendered, NEED_MASK, MaskVariable(line)) = "None"

\* a reduction kernel compiled without masks, with a load under the reduction
\* mask and the store of a reduction under the plain mask
C8_UnmaskedReductionKernel ==
    /\ rendered # NotRendered
    /\ ~NEED_MASK
    /\ \E line \in LoadStoreLines : line.op = "tl.load" /\ line.mask = "mask=mask_reduction"
    /\ \E line \in LoadStoreLines : line.op = "tl.store" /\ line.mask = "mask=mask"

\* C9: lookup(v) returns, after any lookups, what the first lookup(v) returned;
\* with the default construction lookup(0) and lookup(1) are the constants 0
\* and 1 and no variable is minted for them; with zero_one_const=False they
\* get a minted variable like any other value.
C9_LookupIdempotent ==
    /\ lookup_val \in DOMAIN first_ret => lookup_ret = first_ret[lookup_val]
    /\ \A v \in DOMAIN first_ret :
          getitem(val_to_var, var_to_val, v).ret = first_ret[v]
    /\ zero_one_const =>
          /\ \A v \in {0, 1} : getitem(val_to_var, var_to_val, v).ret = Integer(v)
          /\ \A i \in 1..Len(var_to_val) : var_to_val[i][2] \notin {0, 1}
    /\ ~zero_one_const =>
          \A v \in {0, 1} \cap DOMAIN first_ret :
             /\ first_ret[v].kind = "Symbol"
             /\ \E i \in 1..Len(var_to_val) : var_to_val[i] = <<first_ret[v], v>>

\* 2 was looked up first, another value was minted after it, and 2 was looked
\* up again
C9_RepeatedLookup ==
    /\ lookup_val = 2
    /\ Len(var_to_val) >= 2
    /\ var_to_val[1] = <<Symbol(prefix, 0), 2>>
    /\ lookup_ret = Symbol(prefix, 0)

OccursAsShape(var) ==
    \E k \in 1..Len(graph_inputs) :
       \/ \E d \in 1..Len(graph_inputs[k].size) : graph_inputs[k].size[d] = var
       \/ \E d \in 1..Len(graph_inputs[k].stride) : graph_inputs[k].stride[d] = var

\* C10: codegen fails its assertion exactly when some minted variable is no
\* size and no stride of any declared input, and returns otherwise.
C10_CodegenFailsIffUnbound ==
    codegen_ret # NotCalled =>
        /\ codegen_ret.kind = "AssertionError" <=> \E var \in Minted : ~OccursAsShape(var)
        /\ codegen_ret.kind = "returned" <=> \A var \in Minted : OccursAsShape(var)

\* codegen failed after binding one variable: another one occurs in no input
C10_FailsPartway == codegen_ret.kind = "AssertionError" /\ Len(codegen_ret.code) >= 1


\* the kinds reduction has no default for
UnknownKinds == ReductionTypes \ {"sum", "max", "min"}

\* C11: a reduction call with a kind other than sum, max or min fails, and the
\* failing call leaves the kernel as it was: the loads, compute and stores
\* buffers and the inside_reduction flag are unchanged.
C11_UnknownKindEmitsNothing ==
    [][\A reduction_type \in UnknownKinds : \A index \in CallIndexes(kernel) :
          Reduction("c", reduction_type, index) =>
             /\ call_ret'.kind \notin {"pending", "returned"}
             /\ kernel'.loads = kernel.loads
             /\ kernel'.compute = kernel.compute
             /\ kernel'.stores = kernel.stores
             /\ kernel'.inside_reduction = kernel.inside_reduction]_vars

\* a reduction of unknown kind failed on a kernel that had loaded a value
C11_UnknownKindAfterLoad ==
    /\ call_ret.op = "reduction"
    /\ call_ret.kind = "KeyError"
    /\ kernel.loads # <<>>
    /\ kernel.compute = <<>>


RowReduced == reduced # NotReduced
\* the lanes of the row that are in range: the row is below numel and the lane
\* below reduction_numel
InRange == {i \in 1..Len(row) : row_ok /\ i <= kernel.reduction_numel}
\* the identity of a reduction kind
Identity(kind) ==
    IF kind = "sum" THEN Fin(0) ELSE IF kind = "max" THEN NegInf ELSE PosInf
RECURSIVE SumOver(_)
SumOver(lanes) ==
    IF lanes = {} THEN 0
    ELSE LET i == CHOOSE j \in lanes : TRUE IN row[i].val + SumOver(lanes \ {i})
\* the reduction of the lanes in range alone
ReductionInRange(kind) ==
    IF InRange = {} THEN Identity(kind)
    ELSE IF kind = "sum" THEN Fin(SumOver(InRange))
    ELSE IF kind = "max"
         THEN row[CHOOSE i \in InRange : \A j \in InRange : row[j].val <= row[i].val]
         ELSE row[CHOOSE i \in InRange : \A j \in InRange : row[i].val <= row[j].val]
MaskedRow ==
    eval_where(kernel.compute[1], row, mask_reduction(kernel, row_ok), NEED_MASK)

\* C12: in the emitted code a lane masked out by the reduction mask holds the
\* identity of the kind (0 for sum, -inf for max, +inf for min) when it is
\* accumulated and a lane in range holds its value, so the reduced value of
\* the row is the reduction of the lanes in range alone.
C12_MaskedLanesAreIdentity ==
    RowReduced =>
        /\ \A i \in InRange : MaskedRow[i] = row[i]
        /\ NEED_MASK =>
              /\ \A i \in (1..Len(row)) \ InRange : MaskedRow[i] = Identity(reduce_kind)
              /\ reduced = ReductionInRange(reduce_kind)

\* a max was reduced over a row whose masked-out last lane holds more than
\* every lane in range
C12_MaskedLaneWouldWin ==
    /\ RowReduced /\ NEED_MASK /\ row_ok
    /\ reduce_kind = "max"
    /\ kernel.reduction_numel < Len(row)
    /\ \A i \in InRange : row[i].val < row[Len(row)].val


KernelCalled == call_site # NoCallSite
\* the parameters codegen_kernel declared that are no compile-time constants
ConstexprParams ==
    {"BLOCK_SIZE: tl.constexpr", "REDUCTION_SIZE: tl.constexpr", "NEED_MASK: tl.constexpr"}
RECURSIVE RuntimeParams(_)
RuntimeParams(argdefs) ==
    IF argdefs = <<>> THEN <<>>
    ELSE IF Head(argdefs).text \in ConstexprParams THEN RuntimeParams(Tail(argdefs))
    ELSE <<Head(argdefs)>> \o RuntimeParams(Tail(argdefs))
LaunchLine == call_site[Len(call_site)]
\* the argument is what the parameter stands for
Binds(arg, param) ==
    IF param.text = "in_ptr"
    THEN arg.kind = "buffer" /\ arg.text = kernel.input_buffers[param.n + 1]
    ELSE IF param.text = "out_ptr"
    THEN arg.kind = "buffer" /\ arg.text = kernel.output_buffers[param.n + 1]
    ELSE IF param.text = "ks"
    THEN arg.kind = "size" /\ Symbol(arg.text, arg.n) = kernel.sizevars[param.n + 1]
    ELSE IF param.text = "numel" THEN arg = Arg("var", "kernel0_numel", 0)
    ELSE param.text = "reduction_numel" /\ arg = Arg("var", "kernel0_reduction_numel", 0)
\* the groups of the parameters, in their order
Rank(param) ==
    IF param.text = "in_ptr" THEN 1 ELSE IF param.text = "out_ptr" THEN 2
    ELSE IF param.text = "ks" THEN 3 ELSE IF param.text = "numel" THEN 4 ELSE 5

\* C13: the arguments of the launch line are, in count and order, the
\* parameters codegen_kernel declared that are no compile-time constants:
\* input buffers, output buffers, size symbols, numel, and reduction_numel
\* exactly when it is declared; the variables <kernel>_numel and
\* <kernel>_reduction_numel passed are assigned in a line before the launch.
C13_CallMatchesDeclaration ==
    KernelCalled =>
        LET params == RuntimeParams(rendered.argdefs)
            args == LaunchLine.args
        IN /\ LaunchLine.op = "launch"
           /\ Len(args) = Len(params)
           /\ \A i \in 1..Len(params) : Binds(args[i], params[i])
           /\ \A i, j \in 1..Len(params) : i < j => Rank(params[i]) <= Rank(params[j])
           /\ (\E i \in 1..Len(params) : params[i].text = "reduction_numel")
                 <=> (\E i \in 1..Len(args) : args[i].text = "kernel0_reduction_numel")
           /\ \A i \in 1..Len(args) :
                 args[i].kind = "var" =>
                    \E j \in 1..(Len(call_site) - 1) :
                       call_site[j].op = "assign" /\ call_site[j].target = args[i].text

\* a reduction kernel with an input, an output and a size symbol was called
C13_ReductionKernelCalled ==
    /\ KernelCalled
    /\ kernel.inside_reduction
    /\ kernel.input_buffers # <<>> /\ kernel.output_buffers # <<>> /\ kernel.sizevars # <<>>


RangesCalled == ncalls > 0 /\ ranges_arg \in DOMAIN ranges_log
\* the nonempty prefixes of the size lists registered so far, per tree
Prefixes(list) == {SubSeq(list, 1, d) : d \in 1..Len(list)}
IterPrefixes == UNION {Prefixes(a[1]) : a \in DOMAIN ranges_log}
ReductionPrefixes == UNION {Prefixes(a[2]) : a \in DOMAIN ranges_log}
NoRepeats(q) == \A i, j \in 1..Len(q) : q[i] = q[j] => i = j
CommonPrefix(p, q) ==
    {d \in 1..Len(p) : d <= Len(q) /\ SubSeq(p, 1, d) = SubSeq(q, 1, d)}

\* C14: set_ranges returns one variable per size; a pair of size lists
\* registered before gets the variable lists it got the first time; two size
\* lists share the variables of a common prefix; a variable is minted only
\* for a size new at its level of the tree, so there are as many variables as
\* registered prefixes, and no variable is twice in iter_vars and
\* reduction_vars.
C14_RangesRegisteredOnce ==
    RangesCalled =>
        /\ Len(ranges_ret[1]) = Len(ranges_arg[1])
        /\ Len(ranges_ret[2]) = Len(ranges_arg[2])
        /\ ranges_ret = ranges_log[ranges_arg]
        /\ \A a \in DOMAIN ranges_log :
              /\ set_ranges(kernel, a[1], a[2]).ret = ranges_log[a]
              /\ set_ranges(kernel, a[1], a[2]).kernel = kernel
        /\ \A a, b \in DOMAIN ranges_log :
              /\ \A d \in CommonPrefix(a[1], b[1]) : ranges_log[a][1][d] = ranges_log[b][1][d]
              /\ \A d \in CommonPrefix(a[2], b[2]) : ranges_log[a][2][d] = ranges_log[b][2][d]
        /\ Len(kernel.iter_vars) = Cardinality(IterPrefixes)
        /\ Len(kernel.reduction_vars) = Cardinality(ReductionPrefixes)
        /\ NoRepeats(kernel.iter_vars \o kernel.reduction_vars)
        /\ SeqRange(ranges_ret[1]) \subseteq SeqRange(kernel.iter_vars)
        /\ SeqRange(ranges_ret[2]) \subseteq SeqRange(kernel.reduction_vars)

\* [2, 3] was registered after [2, 2]: the variable of the 2 is shared and one
\* variable was minted for the 3
C14_SharedPrefix ==
    /\ ncalls = 2
    /\ ranges_arg[1] = <<2, 3>>
    /\ \E a \in DOMAIN ranges_log : a[1] = <<2, 2>> /\ ranges_log[a][1][1] = ranges_ret[1][1]
    /\ Len(kernel.iter_vars) = 3


LoaderCalled == expand_ret # NotLoaded
\* the index the inner loader is to get: the leading dimensions dropped and
\* 0 for a dimension of inner size 1
InnerIndex(view, index) ==
    LET skip == Len(view.size) - Len(view.data_size)
    IN [i \in 1..Len(view.data_size) |->
           IF view.data_size[i] = 1 THEN 0 ELSE index[skip + i]]

\* C15 as stated: the loader of an ExpandView evaluates for every index tuple
\* of the target rank, and the inner loader gets the index without the
\* leading dimensions and with 0 for every broadcast dimension.
C15_LoaderZeroesBroadcast ==
    LoaderCalled =>
        /\ expand_ret.kind = "returned"
        /\ expand_ret.index = InnerIndex(expand_view, expand_index)


IsAddThenSum ==
    /\ Len(nodes) = 1
    /\ nodes[1].reduction_lengths = <<100>>
    /\ nodes[1].reduction_type = "sum"
LinesOf(code, op) == {i \in 1..Len(code) : code[i].op = op}
LoadedPointers == {kernel.loads[i].ptr : i \in 1..Len(kernel.loads)}

OnWrapper(name) == \E i \in 1..Len(box_chain) : lookup(box_chain[i], name).kind = "returned"

\* C17: whatever swaps came before, a name that no wrapper of the box defines
\* is looked up on the node wrapped at the time of the lookup: a method of
\* that node is returned, and a name the node has not, or has as a field
\* that cannot be called, ends in AttributeError.
C17_DelegatesToWrappedNode ==
    [][\A name \in AttrNames :
          (GetAttr(name) /\ ~OnWrapper(name)) =>
             IF name \in Methods(box_data)
             THEN attr_ret' = Attr(box_data, name, TRUE)
             ELSE attr_ret' = AttributeError]_vars
\* the node the box was made over has no get_stride: the method of the input
\* buffer that was swapped in was returned through both boxes
C17_MethodAfterSwap ==
    /\ box_chain = <<"TensorBox", "StorageBox">>
    /\ box_data = "InputBuffer"
    /\ attr_ret = Attr("InputBuffer", "get_stride", TRUE)


\* the values that were novel at their first lookup, and the value the
\* reverse mapping has for a variable
NovelValues ==
    {val \in DOMAIN first_ret : val \notin DOMAIN SizeVarAllocator_init(zero_one_const).val_to_var}
ValueOf(var) == var_to_val[CHOOSE i \in 1..Len(var_to_val) : var_to_val[i][1] = var][2]

\* C18: after any lookups the novel values, in the order they came, were
\* given prefix+0, prefix+1, ...; no two values have one symbolic variable;
\* the forward and the reverse mapping invert each other on the minted
\* variables.
C18_NamedInOrderAndBijective ==
    /\ Len(var_to_val) = Cardinality(NovelValues)
    /\ \A k \in 0..(Len(var_to_val) - 1) :
          /\ var_to_val[k + 1][1] = Symbol(prefix, k)
          /\ var_to_val[k + 1][2] \in NovelValues
          /\ first_ret[var_to_val[k + 1][2]] = Symbol(prefix, k)
    /\ \A v, w \in DOMAIN val_to_var : v # w => val_to_var[v] # val_to_var[w]
    /\ \A var \in Minted : val_to_var[ValueOf(var)] = var
    /\ \A val \in DOMAIN val_to_var :
          val_to_var[val].kind = "Symbol" =>
             val_to_var[val] \in Minted /\ ValueOf(val_to_var[val]) = val
\* without the constants, 0 and 1 were minted too, and the value minted
\* first was looked up again after two more
C18_ThreeMintedOneRepeated ==
    /\ ~zero_one_const
    /\ Len(var_to_val) = 3
    /\ {0, 1} \subseteq NovelValues
    /\ lookup_val = var_to_val[1][2]
    /\ lookup_ret = Symbol(prefix, 0)


Terminated == pc \in {"done", "raised", "unschedulable"}
InFixedPoint == pc \in {"fixed_point", "exact", "split", "fewer"}

\* C19: schedule_kernels comes to an end (it returns, or fails with the error
\* of node.run or of a node no group can take) for every pool; the
\* fixed-point loop of every kernel is left; a node deferred to the
\* reschedule list is run in a later kernel unless the compilation fails.
C19_ScheduleTerminates ==
    /\ <>Terminated
    /\ InFixedPoint ~> pc \in {"exit", "unwind"}
    /\ \A node \in 1..MaxFairNodes :
          (node \in Deferred) ~> (node \in marked \/ pc = "raised")
\* the scheduler returned after a node was deferred, put back after the
\* barrier of that kernel and run in a kernel opened later
C19_ReturnedAfterDeferral ==
    /\ pc = "done"
    /\ barriers >= 2
    /\ \E node \in DOMAIN nodes, first \in 1..Len(kernels) :
          /\ nodes[node].dep = 0
          /\ kernels[first].key = <<100, 8>>
          /\ group_key(node) = <<800, 1>>
          /\ ~HasSplitPoint(get_ranges(node)[1], 100, 8)
          /\ \A k \in KernelsOf(node) : k > first
          /\ node \in marked


\* C20 as stated: between the calls on a kernel, also after a call whose
\* nested store raised, inside_reduction is (reduction_numel != 1), so that
\* codegen_kernel and call_kernel take the kernel for a reduction kernel
\* exactly when it was opened with a reduction size other than 1.
C20_FlagFollowsReductionNumel == kernel.inside_reduction = (kernel.reduction_numel # 1)


\* the places (input k, dimension d, both counted from 1) where a variable
\* is a size, or a stride, of a declared input
Places(var, what) ==
    {p \in (1..Len(graph_inputs)) \X (1..MaxDims) :
        /\ p[2] <= Len(ShapesOf(graph_inputs[p[1]], what))
        /\ ShapesOf(graph_inputs[p[1]], what)[p[2]] = var}
Before(p, q) == p[1] < q[1] \/ (p[1] = q[1] /\ p[2] <= q[2])
First(places) == CHOOSE p \in places : \A q \in places : Before(p, q)
\* the binding the claim asks for: from the first size, or else the first stride
BindingOf(var) ==
    LET what == IF Places(var, "size") # {} THEN "size" ELSE "stride"
        place == First(Places(var, what))
    IN [var |-> Str(var), name |-> graph_inputs[place[1]].name, what |-> what,
        dim |-> place[2] - 1]
Bindings == {codegen_ret.code[i] : i \in 1..Len(codegen_ret.code)}

\* C21: when codegen returns, the lines it wrote are one binding per minted
\* variable and nothing else, each from the first size that is the variable
\* (inputs in order, dimensions ascending) or, if no size is, from the
\* first stride.
C21_OneBindingPerVariableFirstMatch ==
    codegen_ret.kind = "returned" =>
        /\ Len(codegen_ret.code) = Cardinality(Minted)
        /\ Bindings = {BindingOf(var) : var \in Minted}
\* s0 is the stride of the first input and the size of the second: it was
\* bound from the size, of the later input
C21_SizeOfLaterInputWins ==
    /\ codegen_ret.kind = "returned"
    /\ Len(graph_inputs) = 2
    /\ graph_inputs[1].stride[1] = Symbol(prefix, 0)
    /\ graph_inputs[2].size[1] = Symbol(prefix, 0)
    /\ codegen_ret.code =
          <<[var |-> Str(Symbol(prefix, 0)), name |-> graph_inputs[2].name,
             what |-> "size", dim |-> 0]>>


\* the terms of an index whose monomials satisfy a condition; the constant,
\* the terms in iteration variables only, those in reduction variables only
ConstantOf(p) == [mono \in {x \in DOMAIN p : x = {}} |-> p[mono]]
TermsIn(p, symbols) ==
    [mono \in {x \in DOMAIN p : x # {} /\ x \subseteq symbols} |-> p[mono]]
IterTerms(p) == TermsIn(p, SeqRange(kernel.iter_vars))
ReductionTerms(p) == TermsIn(p, SeqRange(kernel.reduction_vars))
\* c + f(iteration variables) + g(reduction variables): no term mixes the two
Separable(p) ==
    DOMAIN p = DOMAIN ConstantOf(p) \cup DOMAIN IterTerms(p) \cup DOMAIN ReductionTerms(p)

\* the value of an index at an assignment of the variables
RECURSIVE MonoValue(_, _)
MonoValue(mono, at) ==
    IF mono = {} THEN 1
    ELSE LET v == CHOOSE x \in mono : TRUE IN at[v] * MonoValue(mono \ {v}, at)
RECURSIVE SumTerms(_, _, _)
SumTerms(p, monos, at) ==
    IF monos = {} THEN 0
    ELSE LET mono == CHOOSE x \in monos : TRUE
         IN p[mono] * MonoValue(mono, at) + SumTerms(p, monos \ {mono}, at)
Eval(p, at) == SumTerms(p, DOMAIN p, at)
Assignments == [KernelVarSet(kernel) -> 0..2]

\* the expression a part of the address prints
Printed(part) == IF part.text = "tl.reshape" THEN part.expr.expr ELSE part.expr
ShapeOf(part) == IF part.text = "tl.reshape" THEN part.shape ELSE "1-d"

\* C22: for an index c + f(iteration variables) + g(reduction variables),
\* indexing computes offset = c, base_part = f, reduction_part = g, which add
\* up to the index at every assignment; the address it returns has the
\* offset only if it is not 0, then the base part, then, inside a reduction
\* only, the reduction part.
C22_IndexSplitsIntoThreeParts ==
    (IndexCalled /\ Separable(index_arg)) =>
        /\ index_offset(kernel, index_arg) = ConstantOf(index_arg)
        /\ base_part(kernel, index_arg) = IterTerms(index_arg)
        /\ reduction_part(kernel, index_arg) = ReductionTerms(index_arg)
        /\ \A at \in Assignments :
              Eval(index_offset(kernel, index_arg), at)
              + Eval(base_part(kernel, index_arg), at)
              + Eval(reduction_part(kernel, index_arg), at) = Eval(index_arg, at)
        /\ index_ret.kind = "returned" =>
              LET addr == index_ret.addr
                  listed == [i \in 1..Len(addr) |-> Printed(addr[i])]
                  head == IF ConstantOf(index_arg) # ZeroPoly
                          THEN <<ConstantOf(index_arg)>> ELSE <<>>
              IN IF kernel.inside_reduction
                 THEN listed = head \o <<IterTerms(index_arg), ReductionTerms(index_arg)>>
                 ELSE listed = head \o <<IterTerms(index_arg)>>
\* inside a reduction, an index with a constant, an iteration term and a
\* reduction term gave an address of three parts
C22_ThreePartAddress ==
    /\ IndexCalled /\ Separable(index_arg)
    /\ kernel.inside_reduction
    /\ ConstantOf(index_arg) # ZeroPoly
    /\ IterTerms(index_arg) # ZeroPoly
    /\ ReductionTerms(index_arg) # ZeroPoly
    /\ index_ret.kind = "returned"
    /\ Len(index_ret.addr) = 3


\* the two forms of a load/store line: a tile address (the base part a column
\* (BLOCK_SIZE, 1), the reduction part a row (1, REDUCTION_SIZE), after the
\* offset if there is one) under mask_reduction, and a 1-d address without
\* reshaped part and without reduction variable under mask
TileLine(line) ==
    LET addr == line.addr
        n == Len(addr)
    IN /\ n \in {2, 3}
       /\ addr[n - 1].text = "tl.reshape" /\ addr[n - 1].shape = "(BLOCK_SIZE, 1)"
       /\ addr[n].text = "tl.reshape" /\ addr[n].shape = "(1, REDUCTION_SIZE)"
       /\ n = 3 => addr[1].text = "texpr"
       /\ line.mask = "mask=mask_reduction"
FlatLine(k, line) ==
    LET addr == line.addr
        n == Len(addr)
    IN /\ n \in {1, 2}
       /\ \A i \in 1..n :
             /\ addr[i].text \in {"texpr", "tl.zeros"}
             /\ \A mono \in DOMAIN addr[i].expr : mono \cap SeqRange(k.reduction_vars) = {}
       /\ addr[n].text = "tl.zeros" => addr[n].shape = "(BLOCK_SIZE, )"
       /\ line.mask = "mask=mask"
LineOfMode(k, line) == IF k.inside_reduction THEN TileLine(line) ELSE FlatLine(k, line)
AddressLines(k) == SeqRange(k.loads) \cup SeqRange(k.stores)
LoadedLine(k, var) == CHOOSE line \in SeqRange(k.loads) : line.target = var
LastStore(k) == k.stores[Len(k.stores)]
OutOfReduction(k) == [k EXCEPT !.inside_reduction = FALSE]

\* C23: every load/store line of a kernel has one of the two forms, all of a
\* pointwise kernel the flat one; a load or store that returned has emitted
\* the form of the mode of the kernel; the store issued by reduction() is
\* flat; and so is every line a load or store emits while a reduction
\* kernel is switched out of reduction mode, as in the absorb loop of step 4.
C23_AddressShapeMatchesMask ==
    /\ \A line \in AddressLines(kernel) : TileLine(line) \/ FlatLine(kernel, line)
    /\ kernel.reduction_numel = 1 => \A line \in AddressLines(kernel) : FlatLine(kernel, line)
    /\ kernel.reduction_numel # 1 => \A line \in SeqRange(kernel.loads) : TileLine(line)
    /\ call_ret.kind = "returned" =>
          /\ call_ret.op = "load" => LineOfMode(kernel, LoadedLine(kernel, call_ret.var))
          /\ call_ret.op = "store" => LineOfMode(kernel, LastStore(kernel))
          /\ call_ret.op = "reduction" => FlatLine(kernel, LastStore(kernel))
    /\ \A index \in CallIndexes(kernel) :
          LET out == OutOfReduction(kernel)
              ld == load(out, "a", index)
              st == store(out, "c", index, LastValue(out))
          IN /\ ld.kind = "returned" => FlatLine(out, LoadedLine(ld.kernel, ld.var))
             /\ st.kind = "returned" => FlatLine(out, LastStore(st.kernel))
\* a reduction kernel holds a load line of the tile form and the flat store
\* line of a reduction
C23_TileLoadFlatStore ==
    /\ kernel.reduction_numel # 1
    /\ call_ret.op = "reduction" /\ call_ret.kind = "returned"
    /\ \E line \in SeqRange(kernel.loads) : TileLine(line) /\ Len(line.addr) = 2
    /\ FlatLine(kernel, LastStore(kernel))


\* the lanes of the launch that have run the prologue, and whether all have
LaneSet == 1..Len(launch)
AllLanesRan == prologue.done /\ Len(launch) = kernel.numel * kernel.reduction_numel
TupleInRange(values, sizes) ==
    /\ Len(values) = Len(sizes)
    /\ \A j \in 1..Len(sizes) : values[j] \in 0..(sizes[j] - 1)

\* C24: for a range tree built from one size list [n0, ..., nk] of product
\* numel, the prologue (var = indices % size, next = indices // size, last
\* level var = indices) gives every flat offset in [0, numel) a tuple with
\* variable j in [0, nj), distinct offsets get distinct tuples, and the
\* row-major indexer of indexer_from_sizes for the same list takes the tuples
\* one-to-one onto [0, numel); in a reduction kernel the same holds of
\* reduction0 and the reduction size list.
C24_PrologueThenIndexerIsBijection ==
    /\ \A i \in LaneSet :
          /\ TupleInRange(launch[i].vars, ranges_arg[1])
          /\ launch[i].addr.kind = "returned"
          /\ launch[i].addr.addr \in 0..(kernel.numel - 1)
          /\ kernel.inside_reduction =>
                /\ launch[i].kind = "returned"
                /\ TupleInRange(launch[i].reduction_vars, ranges_arg[2])
                /\ launch[i].reduction_addr.kind = "returned"
                /\ launch[i].reduction_addr.addr \in 0..(kernel.reduction_numel - 1)
    /\ \A i, j \in LaneSet :
          /\ launch[i].indices0 # launch[j].indices0 =>
                /\ launch[i].vars # launch[j].vars
                /\ launch[i].addr.addr # launch[j].addr.addr
          /\ kernel.inside_reduction /\ launch[i].reduction0 # launch[j].reduction0 =>
                /\ launch[i].reduction_vars # launch[j].reduction_vars
                /\ launch[i].reduction_addr.addr # launch[j].reduction_addr.addr
    /\ AllLanesRan =>
          /\ {launch[i].indices0 : i \in LaneSet} = 0..(kernel.numel - 1)
          /\ {launch[i].addr.addr : i \in LaneSet} = 0..(kernel.numel - 1)
          /\ kernel.inside_reduction =>
                /\ {launch[i].reduction0 : i \in LaneSet}
                      = 0..(kernel.reduction_numel - 1)
                /\ {launch[i].reduction_addr.addr : i \in LaneSet}
                      = 0..(kernel.reduction_numel - 1)
\* every lane of a [2, 3] by [2] node has run: flat offset 1 is the tuple
\* (1, 0), which the indexer sends to element 3
C24_TwoByThreeAllLanes ==
    /\ AllLanesRan
    /\ ranges_arg = <<(<<2, 3>>), (<<2>>)>>
    /\ \E i \in LaneSet :
          /\ launch[i].kind = "returned"
          /\ launch[i].indices0 = 1
          /\ launch[i].reduction0 = 1
          /\ launch[i].vars = <<1, 0>>
          /\ launch[i].addr.addr = 3


\* the grad mode and the graph as the last call left them, and whether the
\* variable it was made on changes the mode at all
TxNow == Tx(grad_enabled, fx_graph)
ChangesMode(self) == self.target_mode # self.original_mode

\* C25: enter of a GradModeVariable returns exactly when the grad mode equals
\* original_mode and fails otherwise, changing nothing; after enter the grad
\* mode equals target_mode, and after the exit that ends the block it equals
\* original_mode again; each of the two records one set-grad-enabled node (of
\* the mode it sets) exactly when target_mode differs from original_mode, and
\* leaves the grad mode and the graph as they were when the two are equal.
C25_EnterSetsTargetExitRestoresOriginal ==
    /\ grad_ret.op = "enter" =>
          /\ grad_ret.kind = "returned" <=>
                grad_ret.before.grad_enabled = grad_ret.self.original_mode
          /\ grad_ret.kind # "returned" =>
                grad_ret.kind = "AssertionError" /\ TxNow = grad_ret.before
          /\ grad_ret.kind = "returned" =>
                /\ grad_enabled = grad_ret.self.target_mode
                /\ ChangesMode(grad_ret.self) =>
                      fx_graph = Append(grad_ret.before.graph,
                                        create_node(grad_ret.self.target_mode))
                /\ ~ChangesMode(grad_ret.self) => TxNow = grad_ret.before
    /\ grad_ret.op = "exit" =>
          /\ grad_ret.kind = "returned"
          /\ grad_enabled = grad_ret.self.original_mode
          /\ ChangesMode(grad_ret.self) =>
                fx_graph = Append(grad_ret.before.graph,
                                  create_node(grad_ret.self.original_mode))
          /\ ~ChangesMode(grad_ret.self) => TxNow = grad_ret.before
    /\ with_stack # <<>> =>
          grad_enabled = grad_vars[with_stack[Len(with_stack)]].target_mode
\* torch.no_grad() entered and left in a frame that had grad enabled: the
\* graph holds the node that disabled grad and the node that enabled it again
C25_NoGradBlockLeft ==
    /\ grad_ret.op = "exit"
    /\ grad_ret.self = [target_mode |-> FALSE, original_mode |-> TRUE]
    /\ fx_graph = <<create_node(FALSE), create_node(TRUE)>>
    /\ grad_enabled = TRUE
    /\ with_stack = <<>>

====
